---- MODULE Spec2Model ----
(***************************************************************************)
(* Verification model of the AMS optimization core:                        *)
(*   - the userfcn callback registry of ams/pypower/routines/opf_fcns.py   *)
(*     (add_userfcn, remove_userfcn, run_userfcn);                         *)
(*   - the declarative-to-CVXPY compiler OModel of ams/opt/omodel.py       *)
(*     (setup, parse_var, parse_constr, parse_obj);                        *)
(*   - the AC OPF solver callbacks of ams/pypower/routines/opf_fcns.py     *)
(*     (opf_consfcn, opf_costfcn, opf_hessfcn);                            *)
(*   - the result handoff: DCOPFBase.unpack of ams/routines/dcopf.py and   *)
(*     Dynamic.send of ams/interop/andes.py.                               *)
(***************************************************************************)
EXTENDS Integers, Sequences, FiniteSets, TLC

(***************************************************************************)
(* Bounds of the model.                                                    *)
(***************************************************************************)
MaxEntries == 3      \* callbacks registered over all stages together
PayloadMod == 5      \* payloads are the numbers 0 .. PayloadMod-1
MaxPayload == 1      \* payloads handed to run_userfcn are 0 .. MaxPayload
MaxSetups == 2       \* calls of OModel.setup on one instance
MaxCalls == 1        \* direct calls of parse_var, parse_constr, parse_obj

(***************************************************************************)
(* Part I.  The userfcn registry.                                          *)
(***************************************************************************)

\* The stage names run_userfcn dispatches on, by call signature.
StagesRvArgs == {"ext2int", "formulation", "int2ext"}
StagesRvFdOptArgs == {"printpf", "savecase"}
ValidStages == StagesRvArgs \cup StagesRvFdOptArgs

\* Stage names the callers of the model use: one of each signature and one
\* name that is no callback stage (add_userfcn only logs it).
StageInputs == {"formulation", "savecase", "bogus"}

\* Callback functions and the args values they are registered with.
Fcns == {"f", "g"}
ArgsInputs == {<< >>, <<1>>}
Payloads == 0 .. MaxPayload

VARIABLES
    has_userfcn,   \* 'userfcn' in ppc
    keys,          \* the keys (stage names) of the dict ppc['userfcn']
    userfcn,       \* ppc['userfcn'][stage] for the keys, << >> otherwise
    run,           \* the run_userfcn call in progress (or the last one)
    multi,         \* an add_userfcn with allow_multiple=True has happened
    uerr,          \* outcome of the last registry call
    reg            \* the last call made on the registry

uvars == <<has_userfcn, keys, userfcn, run, multi, uerr, reg>>

VARIABLES
    routine,     \* the routine formulation: ralgebs, constrs, obj
    vars,        \* OModel.vars, an OrderedDict: list of [k, v]
    constrs,     \* OModel.constrs, an OrderedDict: list of [k, v]
    obj,         \* OModel.obj (NoObj is None)
    n,           \* OModel.n
    m,           \* OModel.m
    mdl,         \* OModel.mdl (NoMdl is None)
    pc,          \* position inside setup: idle, vars, constrs, obj, mdl, done, failed
    pos,         \* index of the loop setup is in
    nid,         \* identity of the next solver object created
    err,         \* the exception raised by the last call, if any
    last,        \* the parse_* call made by the last step
    trace,       \* what the setup call in progress has done so far
    nsetup,      \* calls of setup started
    ncompiled,   \* calls of setup completed
    ncalls,      \* direct calls of parse_var, parse_constr, parse_obj
    first        \* names, objective and counts as the first completed setup left them

ovars == <<routine, vars, constrs, obj, n, m, mdl, pc, pos, nid, err, last, trace,
           nsetup, ncompiled, ncalls, first>>

VARIABLES
    om,          \* the OPF model object: case arrays, cost parameters, index map
    thr          \* per caller, the opf_consfcn/opf_costfcn/opf_hessfcn call it is in

pvars == <<om, thr>>

VARIABLES
    solver,      \* the compiled model self.om: the value of every variable and of obj
    rtn,         \* the routine: its variable objects, obj.v, exit_code, map2
    sys,         \* the AMS system: recent, is_setup, the owner models, dyn
    ads,         \* the ANDES systems
    call         \* the unpack or send call in progress (or the last one)

dvars == <<solver, rtn, sys, ads, call>>

allvars == <<uvars, ovars, pvars, dvars>>

RECURSIVE SumSeq(_)
SumSeq(s) == IF s = << >> THEN 0 ELSE Head(s) + SumSeq(Tail(s))

\* The two callbacks of the model; they do not commute.
\*   f(rv, args)  = 2*rv + sum(args),   g(rv, args) = rv + 1
Callback(fcn, rv, args) ==
    IF fcn = "f" THEN (2 * rv + SumSeq(args)) % PayloadMod
                 ELSE (rv + 1) % PayloadMod

\* The same callbacks called with the file handle and the options as well;
\* f adds the options value.
Callback4(fcn, rv, fd, ppopt, args) ==
    IF fcn = "f" THEN (2 * rv + ppopt + SumSeq(args)) % PayloadMod
                 ELSE (rv + 1) % PayloadMod

Entry(fcn) == [fcn |-> fcn, hasargs |-> FALSE, args |-> << >>]

StageList(stage) == IF stage \in keys THEN userfcn[stage] ELSE << >>

TotalEntries ==
    LET RECURSIVE Tot(_)
        Tot(S) == IF S = {} THEN 0
                  ELSE LET s == CHOOSE x \in S : TRUE
                       IN Len(userfcn[s]) + Tot(S \ {s})
    IN Tot(keys)

\* A variant that attaches the args to the first entry of the list.
AddedListArgsFirst(stage, fcn, args, allow_multiple) ==
    LET old == StageList(stage)
        new == Append(old, Entry(fcn))
    IN IF Len(args) > 0
       THEN [new EXCEPT ![1] = [fcn |-> new[1].fcn, hasargs |-> TRUE, args |-> args]]
       ELSE new

\* opf_fcns.py 697-712: the list of the stage after add_userfcn.  With
\* allow_multiple False the scan for an entry with the same fcn only writes
\* a debug log line; the append that follows is unconditional.  n0 is the
\* length before the append (n in the code), so entry n0 (0-based) is the new
\* one.
AddedList(stage, fcn, args, allow_multiple) ==
    LET old == StageList(stage)
        n0 == Len(old)
        new == Append(old, Entry(fcn))
    IN IF Len(args) > 0
       THEN [new EXCEPT ![n0 + 1] = [fcn |-> fcn, hasargs |-> TRUE, args |-> args]]
       ELSE new

\* No run_userfcn call in progress and none finished since the last registry
\* call.
RunIdle == [state |-> "idle", stage |-> "formulation", payload |-> 0,
            ppopt |-> 0, k |-> 0, rv |-> 0, calls |-> << >>]

\* No registry call was made yet.
NoReg == [op |-> "none", stage |-> "none", fcn |-> "none"]

PutStage(stage, list) == [userfcn EXCEPT ![stage] = list]

add_userfcn(stage, fcn, args, allow_multiple) ==
    /\ run.state # "running"
    /\ TotalEntries < MaxEntries
    /\ has_userfcn' = TRUE
    /\ keys' = keys \cup {stage}
    /\ userfcn' = PutStage(stage, AddedList(stage, fcn, args, allow_multiple))
    /\ multi' = (multi \/ allow_multiple)
    /\ uerr' = "none"
    /\ reg' = [op |-> "add_userfcn", stage |-> stage, fcn |-> fcn]
    /\ run' = RunIdle
    /\ UNCHANGED <<ovars, pvars, dvars>>

\* A variant that deletes the first entry whose fcn is fcn.
RemovedListFirst(list, fcn) ==
    LET hits == {k \in 1 .. Len(list) : list[k].fcn = fcn}
    IN IF hits = {} THEN list
       ELSE LET kmin == CHOOSE k \in hits : \A j \in hits : k <= j
            IN SubSeq(list, 1, kmin - 1) \o SubSeq(list, kmin + 1, Len(list))

\* opf_fcns.py 729-734: delete the last entry whose fcn is fcn.
RemovedList(list, fcn) ==
    LET hits == {k \in 1 .. Len(list) : list[k].fcn = fcn}
    IN IF hits = {} THEN list
       ELSE LET kmax == CHOOSE k \in hits : \A j \in hits : j <= k
            IN SubSeq(list, 1, kmax - 1) \o SubSeq(list, kmax + 1, Len(list))

remove_userfcn(stage, fcn) ==
    /\ run.state # "running"
    /\ IF has_userfcn /\ stage \in keys
       THEN /\ userfcn' = PutStage(stage, RemovedList(userfcn[stage], fcn))
            /\ uerr' = "none"
       ELSE /\ uerr' = "KeyError"      \* ppc['userfcn'][stage] does not exist
            /\ UNCHANGED userfcn
    /\ reg' = [op |-> "remove_userfcn", stage |-> stage, fcn |-> fcn]
    /\ run' = RunIdle
    /\ UNCHANGED <<has_userfcn, keys, multi>>
    /\ UNCHANGED <<ovars, pvars, dvars>>

\* opf_fcns.py 590-605: one iteration of the loop of run_userfcn.  The call
\* is made only for the five stage names the function knows; for any other
\* stage name the iteration does nothing.
UserfcnArgs(entry) == IF entry.hasargs THEN entry.args ELSE << >>

\* A variant that drops the value returned by a printpf/savecase callback.
UserfcnCallDropsResult(stage, entry, rv, fd, ppopt) ==
    IF stage \in StagesRvArgs
    THEN [rv |-> Callback(entry.fcn, rv, UserfcnArgs(entry)), called |-> TRUE]
    ELSE IF stage \in StagesRvFdOptArgs
    THEN [rv |-> rv, called |-> TRUE]
    ELSE [rv |-> rv, called |-> FALSE]

UserfcnCall(stage, entry, rv, fd, ppopt) ==
    IF stage \in StagesRvArgs
    THEN [rv |-> Callback(entry.fcn, rv, UserfcnArgs(entry)), called |-> TRUE]
    ELSE IF stage \in StagesRvFdOptArgs
    THEN [rv |-> Callback4(entry.fcn, rv, fd, ppopt, UserfcnArgs(entry)),
          called |-> TRUE]
    ELSE [rv |-> rv, called |-> FALSE]

\* opf_fcns.py 588: the loop runs when the dict is non-empty and has the stage.
RunLoops(stage) == (Cardinality(keys) > 0) /\ (stage \in keys)

\* run_userfcn(userfcn, stage, payload, fd, ppopt): entry, rv = args2[0].
run_begin(stage, payload, ppopt) ==
    /\ run.state # "running"
    /\ run' = [state |-> "running", stage |-> stage, payload |-> payload,
               ppopt |-> ppopt, k |-> 0, rv |-> payload, calls |-> << >>]
    /\ reg' = [op |-> "run_userfcn", stage |-> stage, fcn |-> "none"]
    /\ UNCHANGED <<has_userfcn, keys, userfcn, multi, uerr>>
    /\ UNCHANGED <<ovars, pvars, dvars>>

\* One iteration k of "for k in range(len(userfcn[stage]))".
run_step ==
    /\ run.state = "running"
    /\ RunLoops(run.stage)
    /\ run.k < Len(userfcn[run.stage])
    /\ LET entry == userfcn[run.stage][run.k + 1]
           res == UserfcnCall(run.stage, entry, run.rv, 0, run.ppopt)
       IN run' = [run EXCEPT !.k = run.k + 1,
                             !.rv = res.rv,
                             !.calls = IF res.called
                                       THEN Append(run.calls, entry.fcn)
                                       ELSE run.calls]
    /\ UNCHANGED <<has_userfcn, keys, userfcn, multi, uerr, reg>>
    /\ UNCHANGED <<ovars, pvars, dvars>>

\* "return rv"
run_return ==
    /\ run.state = "running"
    /\ IF RunLoops(run.stage) THEN run.k >= Len(userfcn[run.stage]) ELSE TRUE
    /\ run' = [run EXCEPT !.state = "done"]
    /\ UNCHANGED <<has_userfcn, keys, userfcn, multi, uerr, reg>>
    /\ UNCHANGED <<ovars, pvars, dvars>>

(***************************************************************************)
(* Part II.  OModel: the compiler from a routine's symbolic formulation to *)
(* a CVXPY problem.                                                        *)
(***************************************************************************)
\* ---- the formulations the model compiles --------------------------------
\* Routine variables (RAlgeb): pg as in DCOPFModel, ug a boolean variable.
RAlgebN(name) == IF name = "pg" THEN 2 ELSE 1
RAlgebUnit(name) == IF name = "ug" THEN "bool" ELSE "p.u."

RAlgebDecls(name) ==
    [name : {name}, n : {RAlgebN(name)}, unit : {RAlgebUnit(name)},
     lb : {"None", "pmin"}, ub : {"None", "pmax"}]

RAlgebLists ==
    {<<a>> : a \in RAlgebDecls("pg")}
    \cup {<<a, b>> : a \in RAlgebDecls("pg"), b \in RAlgebDecls("ug")}
    \cup {<<b, a>> : a \in RAlgebDecls("pg"), b \in RAlgebDecls("ug")}

\* Number of devices of the model that owns a bound parameter (lb.owner.n).
OwnerN(param) == 2

\* Declared constraints.  One of them is named like the bound parameter pmin.
ConstrEStr(name) ==
    IF name = "pb" THEN <<"sum", "pd", "-", "sum", "pg">>
                   ELSE <<"pg", "-", "rate_a">>

ConstrTypes == {"eq", "uq", "ge"}

ConstrDecls(name) == [name : {name}, e_str : {ConstrEStr(name)}, type : ConstrTypes]

ConstrLists ==
    {<< >>}
    \cup {<<c>> : c \in ConstrDecls("pb") \cup ConstrDecls("pmin")}
    \cup {<<c, d>> : c \in ConstrDecls("pb"), d \in ConstrDecls("pmin")}
    \cup {<<d, c>> : c \in ConstrDecls("pb"), d \in ConstrDecls("pmin")}

Senses == {"min", "max", "minimize"}

ObjDecls == [e_str : {<<"sum", "c1", "*", "pg">>}, sense : Senses]

Routines == [ralgebs : RAlgebLists, constrs : ConstrLists, obj : ObjDecls]

\* The DCOPF formulation of ams/routines/dcopf.py (pg, pb, one line limit).
DCOPFRoutine ==
    [ralgebs |-> <<[name |-> "pg", n |-> 2, unit |-> "p.u.", lb |-> "pmin",
                    ub |-> "pmax"]>>,
     constrs |-> <<[name |-> "pb", e_str |-> ConstrEStr("pb"), type |-> "eq"]>>,
     obj |-> [e_str |-> <<"sum", "c1", "*", "pg">>, sense |-> "min"]]

\* ---- OrderedDict ---------------------------------------------------------
Keys(d) == {d[k].k : k \in 1 .. Len(d)}

Get(d, key) == (CHOOSE e \in {d[k] : k \in 1 .. Len(d)} : e.k = key).v

\* An assignment that replaces the whole dict by one holding the new item.
PutReplacesDict(d, key, value) == <<[k |-> key, v |-> value]>>

\* d[key] = value: in place when the key exists, appended otherwise.
Put(d, key, value) ==
    IF key \in Keys(d)
    THEN [k \in 1 .. Len(d) |-> IF d[k].k = key THEN [k |-> key, v |-> value]
                                                ELSE d[k]]
    ELSE Append(d, [k |-> key, v |-> value])

Values(d) == [k \in 1 .. Len(d) |-> d[k].v]

\* ---- symbol substitution -------------------------------------------------
\* routine.syms.sub_map: pattern -> replacement, in order.
SubMap ==
    << <<"pg", "self.pg">>, <<"ug", "self.ug">>,
       <<"pd", "self.routine.pd.v">>, <<"c1", "self.routine.c1.v">>,
       <<"rate_a", "self.routine.rate_a.v">>,
       <<"sum", "cp.sum">>, <<"var", "cp.Variable">>,
       <<"problem", "cp.Problem">> >>

\* re.sub(pattern, replacement, code) on a tokenised code string.
ReSub(pattern, replacement, code) ==
    [k \in 1 .. Len(code) |-> IF code[k] = pattern THEN replacement ELSE code[k]]

\* "for pattern, replacement in sub_map.items(): code = re.sub(...)"
RECURSIVE SubFrom(_, _)
SubFrom(k, code) ==
    IF k > Len(SubMap) THEN code
    ELSE SubFrom(k + 1, ReSub(SubMap[k][1], SubMap[k][2], code))

Sub(code) == SubFrom(1, code)

\* ---- exec ----------------------------------------------------------------
\* The attribute of self a handle reads ("None" when it reads none).
AttrOf(token) ==
    IF token = "self.pg" THEN "pg" ELSE IF token = "self.ug" THEN "ug" ELSE "None"

\* exec raises when the code reads an attribute parse_var has not set yet.
Resolvable(code, vs) ==
    \A k \in 1 .. Len(code) : AttrOf(code[k]) # "None" => AttrOf(code[k]) \in Keys(vs)

\* The expression object exec builds: each token with the identity of the
\* solver variable it refers to (0 when it refers to none).
Resolve(code, vs) ==
    [k \in 1 .. Len(code) |->
        [t |-> code[k],
         id |-> IF AttrOf(code[k]) # "None" THEN Get(vs, AttrOf(code[k])).id ELSE 0]]

\* Number of rows of an expression: a sum is a scalar, otherwise the largest
\* variable it mentions.
ExprSize(code, vs) ==
    IF Len(code) > 0 /\ code[1] = "cp.sum" THEN 1
    ELSE LET ns == {Get(vs, AttrOf(code[k])).n :
                      k \in {j \in 1 .. Len(code) : AttrOf(code[j]) # "None"}}
         IN IF ns = {} THEN 1 ELSE CHOOSE x \in ns : \A y \in ns : y <= x

NoObj == [sense |-> "None", expr |-> << >>]
NoMdl == [built |-> FALSE, obj |-> NoObj, constrs |-> << >>]
NoErr == [raised |-> FALSE, type |-> "None", by |-> "None", msg |-> << >>]
NoCall == [op |-> "None", name |-> "None"]

HandleOf(name) == IF name = "pg" THEN "self.pg" ELSE "self.ug"

\* ---- parse_var (omodel.py 197-226) ---------------------------------------
\* The solver variable "tmp".
NewVar(ralgeb, id) == [id |-> id, n |-> ralgeb.n, boolean |-> (ralgeb.unit = "bool")]

\* The constraint "tmp >= lv" / "tmp <= uv".
BoundConstr(ralgeb, tmp, rel, param) ==
    [lhs |-> <<[t |-> HandleOf(ralgeb.name), id |-> tmp.id]>>, rel |-> rel,
     rhs |-> param, size |-> ralgeb.n]

\* The key a bound constraint is stored under: the bound parameter's name.
BoundKey(ralgeb, param) == param

ParseVarConstrs(ralgeb, tmp, cs) ==
    LET c1 == IF ralgeb.lb # "None"
              THEN Put(cs, BoundKey(ralgeb, ralgeb.lb),
                       BoundConstr(ralgeb, tmp, ">=", ralgeb.lb))
              ELSE cs
    IN IF ralgeb.ub # "None"
       THEN Put(c1, BoundKey(ralgeb, ralgeb.ub),
                BoundConstr(ralgeb, tmp, "<=", ralgeb.ub))
       ELSE c1

ParseVarM(ralgeb, mm) ==
    mm + (IF ralgeb.lb # "None" THEN OwnerN(ralgeb.lb) ELSE 0)
       + (IF ralgeb.ub # "None" THEN OwnerN(ralgeb.ub) ELSE 0)

\* The effect of parse_var(ralgeb) on vars, constrs, m and the object counter.
parse_var(ralgeb) ==
    /\ vars' = Put(vars, ralgeb.name, NewVar(ralgeb, nid))
    /\ constrs' = ParseVarConstrs(ralgeb, NewVar(ralgeb, nid), constrs)
    /\ m' = ParseVarM(ralgeb, m)
    /\ nid' = nid + 1
    /\ err' = NoErr
    /\ last' = [op |-> "parse_var", name |-> ralgeb.name]

\* ---- parse_constr (omodel.py 255-279) ------------------------------------
\* A parse_constr that takes every type but 'eq' for an inequality.
ConstrRelationDefaultsUq(type) == IF type = "eq" THEN "==" ELSE "<="

\* The relation appended to the code for a declared type ("raise": ValueError).
ConstrRelation(type) ==
    IF type = "uq" THEN "<=" ELSE IF type = "eq" THEN "==" ELSE "raise"

\* The message of the ValueError parse_constr raises (omodel.py 277).
ConstrErrorMsg(constr) == <<"Objective sense", routine.obj.sense, "is not supported.">>

ParsedConstr(constr, vs) ==
    [lhs |-> Resolve(Sub(constr.e_str), vs), rel |-> ConstrRelation(constr.type),
     rhs |-> "0", size |-> ExprSize(Sub(constr.e_str), vs)]

ParseConstrError(constr) ==
    IF ConstrRelation(constr.type) = "raise"
    THEN [raised |-> TRUE, type |-> "ValueError", by |-> "parse_constr",
          msg |-> ConstrErrorMsg(constr)]
    ELSE IF ~Resolvable(Sub(constr.e_str), vars)
    THEN [raised |-> TRUE, type |-> "AttributeError", by |-> "parse_constr",
          msg |-> <<"'OModel' object has no attribute">>]
    ELSE NoErr

parse_constr(constr) ==
    /\ err' = ParseConstrError(constr)
    /\ constrs' = IF ParseConstrError(constr).raised THEN constrs
                  ELSE Put(constrs, constr.name, ParsedConstr(constr, vars))
    /\ last' = [op |-> "parse_constr", name |-> constr.name]

\* ---- parse_obj (omodel.py 228-253) ---------------------------------------
\* A parse_obj that takes every sense but 'min' for a maximisation.
ObjSelectorDefaultsMax(sense) == IF sense = "min" THEN "Minimize" ELSE "Maximize"

\* The selector the objective code is wrapped in ("raise": ValueError).
ObjSelector(sense) ==
    IF sense = "min" THEN "Minimize" ELSE IF sense = "max" THEN "Maximize"
    ELSE "raise"

ObjErrorMsg(o) == <<"Objective sense", o.sense, "is not supported.">>

ParseObjError(o) ==
    IF ObjSelector(o.sense) = "raise"
    THEN [raised |-> TRUE, type |-> "ValueError", by |-> "parse_obj",
          msg |-> ObjErrorMsg(o)]
    ELSE IF ~Resolvable(Sub(o.e_str), vars)
    THEN [raised |-> TRUE, type |-> "AttributeError", by |-> "parse_obj",
          msg |-> <<"'OModel' object has no attribute">>]
    ELSE NoErr

parse_obj(o) ==
    /\ err' = ParseObjError(o)
    /\ obj' = IF ParseObjError(o).raised THEN obj
              ELSE [sense |-> ObjSelector(o.sense),
                    expr |-> Resolve(Sub(o.e_str), vars)]
    /\ last' = [op |-> "parse_obj", name |-> "obj"]

\* ---- setup (omodel.py 156-188) -------------------------------------------
\* A setup that parses the objective before the declared constraints.
NextPhaseObjFirst(phase) ==
    IF phase = "vars" THEN "obj"
    ELSE IF phase = "obj" THEN "constrs"
    ELSE IF phase = "constrs" THEN "mdl"
    ELSE "done"

\* A setup that builds the problem before it parses the objective.
NextPhaseMdlBeforeObj(phase) ==
    IF phase = "vars" THEN "constrs"
    ELSE IF phase = "constrs" THEN "mdl"
    ELSE IF phase = "mdl" THEN "obj"
    ELSE "done"

\* The order of the four parts of setup.
NextPhase(phase) ==
    IF phase = "vars" THEN "constrs"
    ELSE IF phase = "constrs" THEN "obj"
    ELSE IF phase = "obj" THEN "mdl"
    ELSE "done"

\* No call is in progress on the instance.
Callable == pc \in {"idle", "done", "failed"}

\* setup is called: generate_symbols, then the loop over the variables.
setup_begin ==
    /\ Callable
    /\ nsetup < MaxSetups
    /\ pc' = "vars"
    /\ pos' = 1
    /\ trace' = << >>
    /\ nsetup' = nsetup + 1
    /\ err' = NoErr
    /\ last' = NoCall
    /\ UNCHANGED <<routine, vars, constrs, obj, n, m, mdl, nid, ncompiled, ncalls,
                   first>>
    /\ UNCHANGED <<uvars, pvars, dvars>>

\* One iteration of "for rname, ralgeb in self.routine.ralgebs.items()".
setup_var ==
    /\ pc = "vars"
    /\ pos <= Len(routine.ralgebs)
    /\ parse_var(routine.ralgebs[pos])
    /\ n' = n + routine.ralgebs[pos].n
    /\ pos' = pos + 1
    /\ trace' = Append(trace, [ev |-> "var", name |-> routine.ralgebs[pos].name])
    /\ UNCHANGED <<routine, obj, mdl, pc, nsetup, ncompiled, ncalls, first>>
    /\ UNCHANGED <<uvars, pvars, dvars>>

\* The loop over the variables is exhausted.
setup_vars_end ==
    /\ pc = "vars"
    /\ pos > Len(routine.ralgebs)
    /\ pc' = NextPhase(pc)
    /\ pos' = 1
    /\ UNCHANGED <<routine, vars, constrs, obj, n, m, mdl, nid, err, last, trace,
                   nsetup, ncompiled, ncalls, first>>
    /\ UNCHANGED <<uvars, pvars, dvars>>

\* One iteration of "for cname, constr in self.routine.constrs.items()"; an
\* exception of parse_constr ends setup.
setup_constr ==
    /\ pc = "constrs"
    /\ pos <= Len(routine.constrs)
    /\ parse_constr(routine.constrs[pos])
    /\ IF ParseConstrError(routine.constrs[pos]).raised
       THEN /\ pc' = "failed"
            /\ UNCHANGED <<m, pos, trace>>
       ELSE /\ m' = m + Get(constrs', routine.constrs[pos].name).size
            /\ pos' = pos + 1
            /\ trace' = Append(trace, [ev |-> "constr",
                                       name |-> routine.constrs[pos].name])
            /\ UNCHANGED pc
    /\ UNCHANGED <<routine, vars, obj, n, mdl, nid, nsetup, ncompiled, ncalls, first>>
    /\ UNCHANGED <<uvars, pvars, dvars>>

\* The loop over the declared constraints is exhausted.
setup_constrs_end ==
    /\ pc = "constrs"
    /\ pos > Len(routine.constrs)
    /\ pc' = NextPhase(pc)
    /\ pos' = 1
    /\ UNCHANGED <<routine, vars, constrs, obj, n, m, mdl, nid, err, last, trace,
                   nsetup, ncompiled, ncalls, first>>
    /\ UNCHANGED <<uvars, pvars, dvars>>

\* What a compile left behind: the names in vars and constrs, the objective
\* as written (without object identities) and the two counters.
ObjText(o) == [sense |-> o.sense, expr |-> [k \in 1 .. Len(o.expr) |-> o.expr[k].t]]

Compiled(vs, cs, o, nn, mm) ==
    [done |-> TRUE, vars |-> Keys(vs), constrs |-> Keys(cs), obj |-> ObjText(o),
     n |-> nn, m |-> mm]

NotCompiled ==
    [done |-> FALSE, vars |-> {}, constrs |-> {}, obj |-> ObjText(NoObj),
     n |-> 0, m |-> 0]

\* "return True": when the step taken was the last one of setup, one more
\* compile has completed.
Returned ==
    IF pc' = "done"
    THEN /\ ncompiled' = ncompiled + 1
         /\ first' = IF ncompiled = 0 THEN Compiled(vars', constrs', obj', n', m')
                      ELSE first
    ELSE UNCHANGED <<ncompiled, first>>

\* "self.parse_obj(obj=self.routine.obj, ...)"; an exception ends setup.
setup_obj ==
    /\ pc = "obj"
    /\ parse_obj(routine.obj)
    /\ IF ParseObjError(routine.obj).raised
       THEN /\ pc' = "failed"
            /\ UNCHANGED trace
       ELSE /\ pc' = NextPhase(pc)
            /\ trace' = Append(trace, [ev |-> "obj", name |-> "obj"])
    /\ UNCHANGED <<routine, vars, constrs, n, m, mdl, pos, nid, nsetup, ncalls>>
    /\ UNCHANGED <<uvars, pvars, dvars>>
    /\ Returned

\* "self.mdl = cp.Problem(self.obj, [constr for constr in constrs.values()])"
\* and "return True".
setup_mdl ==
    /\ pc = "mdl"
    /\ mdl' = [built |-> TRUE, obj |-> obj, constrs |-> Values(constrs)]
    /\ pc' = NextPhase(pc)
    /\ trace' = Append(trace, [ev |-> "mdl", name |-> "mdl"])
    /\ last' = NoCall
    /\ UNCHANGED <<routine, vars, constrs, obj, n, m, pos, nid, err, nsetup, ncalls>>
    /\ UNCHANGED <<uvars, pvars, dvars>>
    /\ Returned

\* ---- the parse_* methods called by a client, outside setup ---------------
call_parse_var(ralgeb) ==
    /\ Callable
    /\ ncalls < MaxCalls
    /\ parse_var(ralgeb)
    /\ ncalls' = ncalls + 1
    /\ UNCHANGED <<routine, obj, n, mdl, pc, pos, trace, nsetup, ncompiled, first>>
    /\ UNCHANGED <<uvars, pvars, dvars>>

call_parse_constr(constr) ==
    /\ Callable
    /\ ncalls < MaxCalls
    /\ parse_constr(constr)
    /\ ncalls' = ncalls + 1
    /\ UNCHANGED <<routine, vars, obj, n, m, mdl, pc, pos, nid, trace, nsetup,
                   ncompiled, first>>
    /\ UNCHANGED <<uvars, pvars, dvars>>

call_parse_obj ==
    /\ Callable
    /\ ncalls < MaxCalls
    /\ parse_obj(routine.obj)
    /\ ncalls' = ncalls + 1
    /\ UNCHANGED <<routine, vars, constrs, n, m, mdl, pc, pos, nid, trace, nsetup,
                   ncompiled, first>>
    /\ UNCHANGED <<uvars, pvars, dvars>>

(***************************************************************************)
(* Part III.  The OPF callbacks opf_consfcn, opf_costfcn and opf_hessfcn   *)
(* of ams/pypower/routines/opf_fcns.py.                                    *)
(*                                                                         *)
(* Numbers are exact: voltages, admittances and powers are complex numbers *)
(* with integer parts <<re, im>>, and a voltage angle Va counts quarter    *)
(* turns, so that exp(1j*Va) is one of 1, j, -1, -j.  Python indices are   *)
(* kept 0-based in the data; sequences of the model start at 1.            *)
(***************************************************************************)
CZero == <<0, 0>>
CAdd(a, b) == <<a[1] + b[1], a[2] + b[2]>>
CSub(a, b) == <<a[1] - b[1], a[2] - b[2]>>
CMul(a, b) == <<a[1] * b[1] - a[2] * b[2], a[1] * b[2] + a[2] * b[1]>>
CConj(a) == <<a[1], -a[2]>>
CRe(a) == a[1]
CIm(a) == a[2]

\* exp(1j * va)
CExp(va) ==
    CASE va % 4 = 0 -> <<1, 0>>
      [] va % 4 = 1 -> <<0, 1>>
      [] va % 4 = 2 -> <<-1, 0>>
      [] OTHER -> <<0, -1>>

RECURSIVE CSum(_)
CSum(s) == IF s = << >> THEN CZero ELSE CAdd(Head(s), CSum(Tail(s)))

\* A * v for a matrix A (a list of rows) and a vector v
MatVec(A, v) ==
    [i \in 1 .. Len(A) |-> CSum([j \in 1 .. Len(v) |-> CMul(A[i][j], v[j])])]

\* Values that may be infinite: inf is -1, 0 or 1; v is the value when inf = 0.
Fin(v) == [inf |-> 0, v |-> v]
Inf == [inf |-> 1, v |-> 0]
NegInf == [inf |-> -1, v |-> 0]

\* a - b for a finite number a and a possibly infinite b
Minus(a, b) == IF b.inf = 1 THEN NegInf ELSE Fin(a - b.v)

\* arange(a, b)
ARange(a, b) == [k \in 1 .. (IF b > a THEN b - a ELSE 0) |-> a + k - 1]

\* x[i1:iN]
Slice(x, i1, iN) == SubSeq(x, i1 + 1, iN)

\* An absent value (None) and a present one.
None == [none |-> TRUE, val |-> << >>]
Some(v) == [none |-> FALSE, val |-> v]

\* The il argument left at its default None.
IlNone == <<-1>>

\* The model of the optimal power flow: model-valued inputs.
POLYNOMIAL == 2
PW_LINEAR == 1
MaxPg == 2           \* Pg entries of x are 0 .. MaxPg
MaxQg == 1           \* Qg entries of x are 0 .. MaxQg

\* The two lines of the case, both between bus 0 and bus 1: the first has
\* no limit entered (RATE_A = 0), the second is limited.
Branches ==
    << [F_BUS |-> 0, T_BUS |-> 1, RATE_A |-> 0],
       [F_BUS |-> 1, T_BUS |-> 0, RATE_A |-> 2] >>

\* One generator at bus 1, its output columns still empty.
Gens == << [GEN_BUS |-> 1, PG |-> 0, QG |-> 0] >>

\* Bus demands (PD, QD), in MW and MVAr.
Buses == << [PD |-> 2, QD |-> 0], [PD |-> 2, QD |-> 0] >>

\* Series admittance of every line.
LineY == <<0, -1>>

\* Yf, Yt and Ybus of the case, as the caller of the callbacks builds them.
YfOf(branch, nb) ==
    [k \in 1 .. Len(branch) |->
        [j \in 1 .. nb |->
            IF j = branch[k].F_BUS + 1 THEN LineY
            ELSE IF j = branch[k].T_BUS + 1 THEN CSub(CZero, LineY)
            ELSE CZero]]

YtOf(branch, nb) ==
    [k \in 1 .. Len(branch) |->
        [j \in 1 .. nb |->
            IF j = branch[k].T_BUS + 1 THEN LineY
            ELSE IF j = branch[k].F_BUS + 1 THEN CSub(CZero, LineY)
            ELSE CZero]]

YbusOf(branch, nb) ==
    [i \in 1 .. nb |->
        [j \in 1 .. nb |->
            CSum([k \in 1 .. Len(branch) |->
                LET f == branch[k].F_BUS + 1
                    t == branch[k].T_BUS + 1
                IN IF (i = f /\ j = f) \/ (i = t /\ j = t) THEN LineY
                   ELSE IF (i = f /\ j = t) \/ (i = t /\ j = f) THEN CSub(CZero, LineY)
                   ELSE CZero])]]

\* Rows il of a matrix or table (il holds 0-based row numbers).
Rows(A, il) == [k \in 1 .. Len(il) |-> A[il[k] + 1]]

\* om.get_idx(): the index map vv, blocks in the order given.
VvStandard(nb, ng, ny) ==
    [i1 |-> [Va |-> 0, Vm |-> nb, Pg |-> 2 * nb, Qg |-> 2 * nb + ng, y |-> 2 * nb + 2 * ng],
     iN |-> [Va |-> nb, Vm |-> 2 * nb, Pg |-> 2 * nb + ng, Qg |-> 2 * nb + 2 * ng,
             y |-> 2 * nb + 2 * ng + ny]]

VvYFirst(nb, ng, ny) ==
    [i1 |-> [y |-> 0, Va |-> ny, Vm |-> ny + nb, Pg |-> ny + 2 * nb, Qg |-> ny + 2 * nb + ng],
     iN |-> [y |-> ny, Va |-> ny + nb, Vm |-> ny + 2 * nb, Pg |-> ny + 2 * nb + ng,
             Qg |-> ny + 2 * nb + 2 * ng]]

\* The state vectors the callers hand in: every block drawn from a few values.
VaInputs == {<<0, 0>>, <<0, 1>>}
VmInputs == {<<1, 1>>, <<1, 2>>}
PgInputs == {<<p>> : p \in 0 .. MaxPg}
QgInputs == {<<q>> : q \in 0 .. MaxQg}
YInputs(ny) == IF ny = 0 THEN {<< >>} ELSE {<<0>>, <<3>>}

BlockNames == {"Va", "Vm", "Pg", "Qg", "y"}

\* The vector x whose blocks, placed by the index map vv, are the given ones.
Assemble(vv, blocks) ==
    LET nxyz == SumSeq([k \in 1 .. 5 |->
                    Len(blocks[<<"Va", "Vm", "Pg", "Qg", "y">>[k]])])
    IN [k \in 1 .. nxyz |->
           LET name == CHOOSE b \in BlockNames : vv.i1[b] < k /\ k <= vv.iN[b]
           IN blocks[name][k - vv.i1[name]]]

Xs(o) ==
    {Assemble(o.vv, [Va |-> va, Vm |-> vm, Pg |-> pg, Qg |-> qg, y |-> yy]) :
        va \in VaInputs, vm \in VmInputs, pg \in PgInputs, qg \in QgInputs,
        yy \in YInputs(o.ny)}

\* ---- opf_consfcn(x, om, Ybus, Yf, Yt, ppopt, il) ----

\* gen[:, PG] = Pg * baseMVA, on the gen array of the model
PutPg(gen, Pg, baseMVA) ==
    [k \in 1 .. Len(gen) |-> [gen[k] EXCEPT !.PG = Pg[k] * baseMVA]]

\* gen[:, QG] = Qg * baseMVA
PutQg(gen, Qg, baseMVA) ==
    [k \in 1 .. Len(gen) |-> [gen[k] EXCEPT !.QG = Qg[k] * baseMVA]]

\* makeSbus(baseMVA, bus, gen): net injected power of every bus, in p.u.
makeSbus(baseMVA, bus, gen) ==
    [i \in 1 .. Len(bus) |->
        LET inj == CSum([k \in 1 .. Len(gen) |->
                       IF gen[k].GEN_BUS + 1 = i THEN <<gen[k].PG, gen[k].QG>>
                       ELSE CZero])
            s == CSub(inj, <<bus[i].PD, bus[i].QD>>)
        IN <<s[1] \div baseMVA, s[2] \div baseMVA>>]

\* V = Vm * exp(1j * Va)
Voltage(x, vv) ==
    LET Va == Slice(x, vv.i1.Va, vv.iN.Va)
        Vm == Slice(x, vv.i1.Vm, vv.iN.Vm)
    IN [i \in 1 .. Len(Vm) |-> CMul(<<Vm[i], 0>>, CExp(Va[i]))]

\* mis = V * conj(Ybus * V) - Sbus
Mismatch(V, Ybus, Sbus) ==
    [i \in 1 .. Len(V) |-> CSub(CMul(V[i], CConj(MatVec(Ybus, V)[i])), Sbus[i])]

\* g = r_[mis.real, mis.imag]
EqResidual(mis) ==
    [k \in 1 .. 2 * Len(mis) |->
        IF k <= Len(mis) THEN CRe(mis[k]) ELSE CIm(mis[k - Len(mis)])]

\* The mutation of FlowMax that leaves a zero limit at zero.
FlowMaxKeepsZero(branch, il, baseMVA) ==
    [k \in 1 .. Len(il) |->
        LET lim == branch[il[k] + 1].RATE_A \div baseMVA IN Fin(lim * lim)]

\* flow_max = (branch[il, RATE_A] / baseMVA)**2; flow_max[flow_max == 0] = Inf
FlowMax(branch, il, baseMVA) ==
    [k \in 1 .. Len(il) |->
        LET lim == branch[il[k] + 1].RATE_A \div baseMVA
        IN IF lim * lim = 0 THEN Inf ELSE Fin(lim * lim)]

\* The mutation of FlowMetric that takes the apparent power in every mode.
FlowMetricIgnoresMode(lim, I, S) == CRe(CMul(S, CConj(S)))

\* The mutation of FlowMetric that takes the active power in the apparent
\* power mode as well.
FlowMetricActiveForApparent(lim, I, S) ==
    IF lim = 2 THEN CRe(CMul(I, CConj(I))) ELSE CRe(S) * CRe(S)

\* The squared flow of one branch end that the mode ppopt['OPF_FLOW_LIM']
\* selects, from its current I and its complex power S.
FlowMetric(lim, I, S) ==
    IF lim = 2 THEN CRe(CMul(I, CConj(I)))
    ELSE IF lim = 1 THEN CRe(S) * CRe(S)
    ELSE CRe(CMul(S, CConj(S)))

\* h: the from ends of the branches of il, then their to ends.
FlowLimits(V, Yf, Yt, branch, il, baseMVA, lim) ==
    LET nl2 == Len(il)
        flow_max == FlowMax(branch, il, baseMVA)
        If == MatVec(Yf, V)
        It == MatVec(Yt, V)
        Sf == [k \in 1 .. nl2 |-> CMul(V[branch[il[k] + 1].F_BUS + 1], CConj(If[k]))]
        St == [k \in 1 .. nl2 |-> CMul(V[branch[il[k] + 1].T_BUS + 1], CConj(It[k]))]
    IN IF nl2 > 0
       THEN [k \in 1 .. 2 * nl2 |->
                IF k <= nl2
                THEN Minus(FlowMetric(lim, If[k], Sf[k]), flow_max[k])
                ELSE Minus(FlowMetric(lim, It[k - nl2], St[k - nl2]), flow_max[k - nl2])]
       ELSE << >>

\* A block of partial derivatives returned by a derivative kernel of
\* ams.pypower.make: 1 marks an entry the kernel may make nonzero.
Dense(r, c) == [i \in 1 .. r |-> [j \in 1 .. c |-> 1]]

\* sparse((r, c)): the zero matrix
Blank(r, c) == [i \in 1 .. r |-> [j \in 1 .. c |-> 0]]

\* neg_Cg = sparse((-ones(ng), (gen[:, GEN_BUS], range(ng))), (nb, ng))
NegCg(gen, nb) ==
    [i \in 1 .. nb |-> [j \in 1 .. Len(gen) |-> IF gen[j].GEN_BUS + 1 = i THEN -1 ELSE 0]]

HStack(A, B) == [i \in 1 .. Len(A) |-> A[i] \o B[i]]
VStack(A, B) == A \o B

\* The mutation of ScatterT that ignores the index list and fills the
\* leading rows.
ScatterTLeading(B, idx, nxyz) ==
    [i \in 1 .. nxyz |-> [r \in 1 .. Len(B) |-> IF i <= Len(idx) THEN B[r][i] ELSE 0]]

\* A = lil_matrix((len(B), nxyz)); A[:, idx] = B; A.T
\* Row idx[j] of the result is column j of B, every other row is zero.
ScatterT(B, idx, nxyz) ==
    [i \in 1 .. nxyz |->
        [r \in 1 .. Len(B) |->
            LET js == {j \in 1 .. Len(idx) : idx[j] = i - 1}
            IN IF js = {} THEN 0 ELSE B[r][CHOOSE j \in js : \A j2 \in js : j2 <= j]]]

\* dg, the transposed Jacobian of the power balance
EqJacobian(gen, nb, vv, nxyz) ==
    LET ng == Len(gen)
        iVaVmPgQg == ARange(vv.i1.Va, vv.iN.Va) \o ARange(vv.i1.Vm, vv.iN.Vm)
                     \o ARange(vv.i1.Pg, vv.iN.Pg) \o ARange(vv.i1.Qg, vv.iN.Qg)
        dV == HStack(Dense(nb, nb), Dense(nb, nb))
        top == HStack(dV, HStack(NegCg(gen, nb), Blank(nb, ng)))
        bot == HStack(dV, HStack(Blank(nb, ng), NegCg(gen, nb)))
    IN ScatterT(VStack(top, bot), iVaVmPgQg, nxyz)

\* The mutation of IneqJacobian that builds the matrix for no line as well.
IneqJacobianAlways(nl2, nb, vv, nxyz) ==
    LET dF == HStack(Dense(nl2, nb), Dense(nl2, nb))
    IN Some(ScatterT(VStack(dF, dF),
                     ARange(vv.i1.Va, vv.iN.Va) \o ARange(vv.i1.Vm, vv.iN.Vm), nxyz))

\* dh, the transposed Jacobian of the flow limits; None without limited lines
IneqJacobian(nl2, nb, vv, nxyz) ==
    IF nl2 > 0
    THEN LET dF == HStack(Dense(nl2, nb), Dense(nl2, nb))
         IN Some(ScatterT(VStack(dF, dF),
                          ARange(vv.i1.Va, vv.iN.Va) \o ARange(vv.i1.Vm, vv.iN.Vm), nxyz))
    ELSE None

\* il as the function uses it: all lines when the argument is None
DefaultIl(il, nl) == IF il = IlNone THEN ARange(0, nl) ELSE il

\* Lines 319-414 of opf_consfcn: everything computed after Pg and Qg were
\* put back in gen, from gen as it is read at that moment.
ConsEval(o, x, lim, il0) ==
    LET nb == Len(o.bus)
        il == DefaultIl(il0, Len(o.branch))
        Ybus == YbusOf(o.branch, nb)
        Yf == Rows(YfOf(o.branch, nb), il)
        Yt == Rows(YtOf(o.branch, nb), il)
        Sbus == makeSbus(o.baseMVA, o.bus, o.gen)
        V == Voltage(x, o.vv)
    IN [h |-> FlowLimits(V, Yf, Yt, o.branch, il, o.baseMVA, lim),
        g |-> EqResidual(Mismatch(V, Ybus, Sbus)),
        dh |-> IneqJacobian(Len(il), nb, o.vv, Len(x)),
        dg |-> EqJacobian(o.gen, nb, o.vv, Len(x))]

\* The callers of the callbacks.
Threads == {1, 2}

NoArgs == [none |-> TRUE]
NoOut == [none |-> TRUE]
IdleFrame == [fn |-> "none", pc |-> "idle", args |-> NoArgs, out |-> NoOut, err |-> "none"]

\* opf_consfcn is entered: lines 294-315, up to gen[:, PG] = Pg * baseMVA.
cons_call(t, x, il, lim) ==
    /\ thr[t].pc = "idle"
    /\ om' = [om EXCEPT !.gen =
                 PutPg(om.gen, Slice(x, om.vv.i1.Pg, om.vv.iN.Pg), om.baseMVA)]
    /\ thr' = [thr EXCEPT ![t] =
                 [fn |-> "consfcn", pc |-> "316", args |-> [x |-> x, il |-> il, lim |-> lim],
                  out |-> NoOut, err |-> "none"]]
    /\ UNCHANGED <<uvars, ovars, dvars>>

\* Line 316, gen[:, QG] = Qg * baseMVA.
cons_put_qg(t) ==
    /\ thr[t].fn = "consfcn"
    /\ thr[t].pc = "316"
    /\ om' = [om EXCEPT !.gen =
                 PutQg(om.gen, Slice(thr[t].args.x, om.vv.i1.Qg, om.vv.iN.Qg), om.baseMVA)]
    /\ thr' = [thr EXCEPT ![t].pc = "319"]
    /\ UNCHANGED <<uvars, ovars, dvars>>

\* Lines 319-414: makeSbus reads gen, the rest follows; return h, g, dh, dg.
cons_eval(t) ==
    /\ thr[t].fn = "consfcn"
    /\ thr[t].pc = "319"
    /\ thr' = [thr EXCEPT ![t].pc = "returned",
                          ![t].out = ConsEval(om, thr[t].args.x, thr[t].args.lim,
                                              thr[t].args.il)]
    /\ UNCHANGED <<om, uvars, ovars, dvars>>

\* The caller takes what the callback returned or raised.
opf_return(t) ==
    /\ thr[t].pc \in {"returned", "raised"}
    /\ thr' = [thr EXCEPT ![t] = IdleFrame]
    /\ UNCHANGED <<om, uvars, ovars, dvars>>

\* ---- opf_costfcn(x, om, return_hessian) ----

\* A gencost row: its MODEL column and the coefficients of c2*p^2 + c1*p.
\* totcost of a polynomial row at output p
totcost(row, p) == row.c2 * p * p + row.c1 * p

\* polycost(row, p, der): the derivative of order der of the row's polynomial
polycost(row, p, der) ==
    IF der = 0 THEN row.c2 * p * p + row.c1 * p
    ELSE IF der = 1 THEN 2 * row.c2 * p + row.c1
    ELSE IF der = 2 THEN 2 * row.c2
    ELSE 0

\* find(gencost[:, MODEL] == POLYNOMIAL): the 0-based positions of the
\* polynomial rows
FindPolynomial(table) ==
    SelectSeq([k \in 1 .. Len(table) |-> k - 1],
              LAMBDA i : table[i + 1].MODEL = POLYNOMIAL)

\* any(s) of Python on a list of numbers: some entry is not zero
PyAny(s) == \E k \in 1 .. Len(s) : s[k] # 0

\* xx = r_[Pg, Qg] * baseMVA
OutputsMW(x, vv, baseMVA) ==
    LET pq == Slice(x, vv.i1.Pg, vv.iN.Pg) \o Slice(x, vv.i1.Qg, vv.iN.Qg)
    IN [k \in 1 .. Len(pq) |-> pq[k] * baseMVA]

\* Lines 460-465: the polynomial cost of P and Q
PolyCost(gencost, xx) ==
    LET ipol == FindPolynomial(gencost)
    IN IF PyAny(ipol)
       THEN SumSeq([k \in 1 .. Len(ipol) |-> totcost(gencost[ipol[k] + 1], xx[ipol[k] + 1])])
       ELSE 0

\* Lines 468-474: ccost, 1 on the y block of x
CCost(vv, ny, nxyz) ==
    IF ny > 0
    THEN [k \in 1 .. nxyz |-> IF vv.i1.y < k /\ k <= vv.iN.y THEN 1 ELSE 0]
    ELSE [k \in 1 .. nxyz |-> 0]

Dot(a, b) == SumSeq([k \in 1 .. Len(a) |-> a[k] * b[k]])

\* The generalized cost parameters of om.get_cost_params().  N is None, or
\* a sparse matrix given by its rows; nnz counts its nonzero entries.
Nnz(N) ==
    SumSeq([i \in 1 .. Len(N.val) |->
        SumSeq([j \in 1 .. Len(N.val[i]) |-> IF N.val[i][j] # 0 THEN 1 ELSE 0])])

\* issparse(N) and N.nnz > 0
GenCostOn(N) == ~N.none /\ Nnz(N) > 0

\* A variant whose dead zone is open: a residual on its edge is outside.
GenCostTermsClosedZone(cp, x) ==
    LET N == cp.N.val
        nw == Len(N)
        r == [i \in 1 .. nw |-> Dot(N[i], x) - cp.rh[i]]
        iLT == {i \in 1 .. nw : r[i] <= -cp.kk[i]}
        iEQ == {i \in 1 .. nw : r[i] = 0 /\ cp.kk[i] = 0}
        iGT == {i \in 1 .. nw : r[i] >= cp.kk[i]}
        nd == [i \in 1 .. nw |->
                 (IF i \in iLT THEN 1 ELSE 0) + (IF i \in iEQ THEN 1 ELSE 0)
                 + (IF i \in iGT THEN 1 ELSE 0)]
        kbar == [i \in 1 .. nw |->
                 ((IF i \in iLT THEN 1 ELSE 0) - (IF i \in iGT THEN 1 ELSE 0)) * cp.kk[i]]
        rr == [i \in 1 .. nw |-> r[i] + kbar[i]]
        M == [i \in 1 .. nw |-> nd[i] * cp.mm[i]]
        LL == [i \in 1 .. nw |-> IF cp.dd[i] = 1 THEN 1 ELSE 0]
        QQ == [i \in 1 .. nw |-> IF cp.dd[i] = 2 THEN 1 ELSE 0]
        w == [i \in 1 .. nw |-> M[i] * (LL[i] + QQ[i] * rr[i]) * rr[i]]
        HwC == [i \in 1 .. nw |-> Dot(cp.H[i], w) + cp.Cw[i]]
        AA == [j \in 1 .. Len(x) |->
                 [i \in 1 .. nw |-> N[i][j] * M[i] * (LL[i] + 2 * QQ[i] * rr[i])]]
    IN [nw |-> nw, r |-> r, iLT |-> iLT, iEQ |-> iEQ, iGT |-> iGT, rr |-> rr, M |-> M,
        QQ |-> QQ, w |-> w, HwC |-> HwC, AA |-> AA]

\* Lines 478-495: the intermediate values of the generalized cost block.
GenCostTerms(cp, x) ==
    LET N == cp.N.val
        nw == Len(N)
        r == [i \in 1 .. nw |-> Dot(N[i], x) - cp.rh[i]]
        iLT == {i \in 1 .. nw : r[i] < -cp.kk[i]}
        iEQ == {i \in 1 .. nw : r[i] = 0 /\ cp.kk[i] = 0}
        iGT == {i \in 1 .. nw : r[i] > cp.kk[i]}
        nd == [i \in 1 .. nw |->
                 (IF i \in iLT THEN 1 ELSE 0) + (IF i \in iEQ THEN 1 ELSE 0)
                 + (IF i \in iGT THEN 1 ELSE 0)]
        kbar == [i \in 1 .. nw |->
                 ((IF i \in iLT THEN 1 ELSE 0) - (IF i \in iGT THEN 1 ELSE 0)) * cp.kk[i]]
        rr == [i \in 1 .. nw |-> r[i] + kbar[i]]
        M == [i \in 1 .. nw |-> nd[i] * cp.mm[i]]
        LL == [i \in 1 .. nw |-> IF cp.dd[i] = 1 THEN 1 ELSE 0]
        QQ == [i \in 1 .. nw |-> IF cp.dd[i] = 2 THEN 1 ELSE 0]
        w == [i \in 1 .. nw |-> M[i] * (LL[i] + QQ[i] * rr[i]) * rr[i]]
        HwC == [i \in 1 .. nw |-> Dot(cp.H[i], w) + cp.Cw[i]]
        AA == [j \in 1 .. Len(x) |->
                 [i \in 1 .. nw |-> N[i][j] * M[i] * (LL[i] + 2 * QQ[i] * rr[i])]]
    IN [nw |-> nw, r |-> r, iLT |-> iLT, iEQ |-> iEQ, iGT |-> iGT, rr |-> rr, M |-> M,
        QQ |-> QQ, w |-> w, HwC |-> HwC, AA |-> AA]

\* dot(w * H, w) / 2 + dot(Cw, w)
GenCostValue(cp, gt) ==
    SumSeq([i \in 1 .. gt.nw |-> gt.w[i] * Dot(cp.H[i], gt.w)]) \div 2 + Dot(cp.Cw, gt.w)

\* AA * HwC
GenCostGradient(gt, nxyz) == [j \in 1 .. nxyz |-> Dot(gt.AA[j], gt.HwC)]

\* AA * H * AA.T + 2 * N.T * M * QQ * diag(HwC) * N
GenCostHessian(cp, gt, nxyz) ==
    [j \in 1 .. nxyz |-> [l \in 1 .. nxyz |->
        SumSeq([i \in 1 .. gt.nw |-> gt.AA[j][i] * Dot(cp.H[i], gt.AA[l])])
        + 2 * SumSeq([i \in 1 .. gt.nw |->
              cp.N.val[i][j] * gt.M[i] * gt.QQ[i] * gt.HwC[i] * cp.N.val[i][l]])]]

MatAdd(A, B) == [i \in 1 .. Len(A) |-> [j \in 1 .. Len(A[i]) |-> A[i][j] + B[i][j]]]
MatScale(A, c) == [i \in 1 .. Len(A) |-> [j \in 1 .. Len(A[i]) |-> A[i][j] * c]]
VecAdd(a, b) == [k \in 1 .. Len(a) |-> a[k] + b[k]]

\* sparse((vals, (idx, idx)), (nxyz, nxyz)): entries of equal position add up
DiagAt(vals, idx, nxyz) ==
    [i \in 1 .. nxyz |-> [j \in 1 .. nxyz |->
        IF i = j
        THEN SumSeq([k \in 1 .. Len(idx) |-> IF idx[k] = i - 1 THEN vals[k] ELSE 0])
        ELSE 0]]

\* Lines 505-512: the gradient of the polynomial and piecewise linear cost
PolyGradient(gencost, xx, vv, ng, ccost, baseMVA) ==
    LET ipol == FindPolynomial(gencost)
        df_dPgQg == [k \in 1 .. 2 * ng |->
                        IF \E q \in 1 .. Len(ipol) : ipol[q] = k - 1
                        THEN baseMVA * polycost(gencost[k], xx[k], 1)
                        ELSE 0]
    IN [k \in 1 .. Len(ccost) |->
           (IF vv.i1.Pg < k /\ k <= vv.iN.Pg THEN df_dPgQg[k - vv.i1.Pg]
            ELSE IF vv.i1.Qg < k /\ k <= vv.iN.Qg THEN df_dPgQg[ng + k - vv.i1.Qg]
            ELSE 0) + ccost[k]]

\* d2f_dPg2 or d2f_dQg2: baseMVA**2 * polycost(.., 2) on the polynomial rows
PolySecond(cost, P, ng, baseMVA) ==
    [k \in 1 .. ng |->
        IF k <= Len(cost) /\ cost[k].MODEL = POLYNOMIAL
        THEN baseMVA * baseMVA * polycost(cost[k], P[k] * baseMVA, 2)
        ELSE 0]

\* Lines 545-548 of opf_costfcn: qcost = gencost[ng + 1:2 * ng, :]
CostQcost(gencost, ng) ==
    IF Len(gencost) > ng THEN SubSeq(gencost, ng + 2, 2 * ng) ELSE << >>

\* The outcome of a callback: what it returns, or the exception it raises.
Raise(e) == [err |-> e]

\* The body of opf_costfcn.  steps names the blocks that were executed.
CostEval(o, x, return_hessian) ==
    LET ng == Len(o.gen)
        nxyz == Len(x)
        cp == o.cp
        xx == OutputsMW(x, o.vv, o.baseMVA)
        fpoly == PolyCost(o.gencost, xx)
        ccost == CCost(o.vv, o.ny, nxyz)
        fpwl == IF o.ny > 0 THEN Dot(ccost, x) ELSE 0
        on == GenCostOn(cp.N)
        gt == GenCostTerms(cp, x)
        fgen == IF on THEN GenCostValue(cp, gt) ELSE 0
        f == fpoly + fpwl + fgen
        df0 == PolyGradient(o.gencost, xx, o.vv, ng, ccost, o.baseMVA)
        df == IF on THEN VecAdd(df0, GenCostGradient(gt, nxyz)) ELSE df0
        steps1 == IF on THEN {"gen_f", "gen_df"} ELSE {}
        pcost == SubSeq(o.gencost, 1, ng)
        qcost == CostQcost(o.gencost, ng)
        d2f0 == DiagAt(PolySecond(pcost, Slice(x, o.vv.i1.Pg, o.vv.iN.Pg), ng, o.baseMVA)
                       \o [k \in 1 .. ng |-> 0],
                       ARange(o.vv.i1.Pg, o.vv.iN.Pg) \o ARange(o.vv.i1.Qg, o.vv.iN.Qg),
                       nxyz)
    IN IF ~return_hessian
       THEN [err |-> "none", ret |-> <<"f", "df">>, f |-> f, fpoly |-> fpoly, fgen |-> fgen,
             df |-> df, d2f |-> << >>, steps |-> steps1]
       ELSE IF Len(qcost) > 0
       THEN Raise("ValueError")
       ELSE IF ~cp.N.none
       THEN IF on
            THEN [err |-> "none", ret |-> <<"f", "df", "d2f">>, f |-> f, fpoly |-> fpoly,
                  fgen |-> fgen, df |-> df,
                  d2f |-> MatAdd(d2f0, GenCostHessian(cp, gt, nxyz)),
                  steps |-> steps1 \cup {"hess_poly", "gen_d2f"}]
            ELSE Raise("UnboundLocalError")
       ELSE [err |-> "none", ret |-> <<"f", "df", "d2f">>, f |-> f, fpoly |-> fpoly,
             fgen |-> fgen, df |-> df, d2f |-> d2f0, steps |-> steps1 \cup {"hess_poly"}]

\* One call of opf_costfcn; it writes nothing the callers share.
opf_costfcn(t, x, return_hessian) ==
    /\ thr[t].pc = "idle"
    /\ LET res == CostEval(om, x, return_hessian)
       IN thr' = [thr EXCEPT ![t] =
                     [fn |-> "costfcn",
                      pc |-> IF res.err = "none" THEN "returned" ELSE "raised",
                      args |-> [x |-> x, return_hessian |-> return_hessian],
                      out |-> res, err |-> res.err]]
    /\ UNCHANGED <<om, uvars, ovars, dvars>>

\* ---- opf_hessfcn(x, lmbda, om, Ybus, Yf, Yt, ppopt, il, cost_mult) ----

\* Lines 117-120 of opf_hessfcn: qcost = gencost[np.arange(ng, 2 * ng), :]
HessQcost(gencost, ng) ==
    IF Len(gencost) > ng THEN SubSeq(gencost, ng + 1, 2 * ng) ELSE << >>

\* np.any(qcost): some entry of the table is not zero
NpAny(cost) ==
    \E k \in 1 .. Len(cost) : cost[k].MODEL # 0 \/ cost[k].c2 # 0 \/ cost[k].c1 # 0

\* lmbda[name][:n] and lmbda[name][n:n + n] for n = int(len(lmbda[name]) / 2)
FirstHalf(lam) == SubSeq(lam, 1, Len(lam) \div 2)
SecondHalf(lam) == SubSeq(lam, Len(lam) \div 2 + 1, 2 * (Len(lam) \div 2))

\* A second-derivative kernel of ams.pypower.make (d2Sbus_dV2, d2AIbr_dV2,
\* d2ASbr_dV2) takes one multiplier per constraint row, n of them, and fails
\* on a vector of another length.
KernelFails(lam, rows) == Len(lam) # rows

\* The 2nb x 2nb block [[aa, av], [va, vv]] the kernel returns, weighted by
\* the multipliers.
KernelBlock(lam, nb) == [i \in 1 .. 2 * nb |-> [j \in 1 .. 2 * nb |-> SumSeq(lam)]]

\* vstack([hstack([B, sparse((2nb, nxtra))]),
\*         hstack([sparse((nxtra, 2nb)), sparse((nxtra, nxtra))])])
Pad(B, nxtra) ==
    VStack(HStack(B, Blank(Len(B), nxtra)),
           HStack(Blank(nxtra, Len(B)), Blank(nxtra, nxtra)))

\* The kernel of the flow-limit Hessian that ppopt['OPF_FLOW_LIM'] selects.
FlowKernel(lim) ==
    IF lim = 2 THEN "d2AIbr_dV2"
    ELSE IF lim = 1 THEN "d2ASbr_dV2 of the real parts"
    ELSE "d2ASbr_dV2"

\* The body of opf_hessfcn.  The module never binds the names np, IDX and
\* c_sparse the body uses: o.names_bound tells whether they resolve in the
\* module's namespace all the same when the call is made.
HessEval(o, x, lmbda, il0, lim, cost_mult) ==
    LET nb == Len(o.bus)
        ng == Len(o.gen)
        nxyz == Len(x)
        cp == o.cp
        il == DefaultIl(il0, Len(o.branch))
        nl2 == Len(il)
        nxtra == nxyz - 2 * nb
        Pg == Slice(x, o.vv.i1.Pg, o.vv.iN.Pg)
        Qg == Slice(x, o.vv.i1.Qg, o.vv.iN.Qg)
        pcost == SubSeq(o.gencost, 1, ng)
        qcost == HessQcost(o.gencost, ng)
        d2f_dPg2 == PolySecond(pcost, Pg, ng, o.baseMVA)
        d2f_dQg2 == IF NpAny(qcost) THEN PolySecond(qcost, Qg, ng, o.baseMVA)
                    ELSE [k \in 1 .. ng |-> 0]
        d2f0 == DiagAt(d2f_dPg2 \o d2f_dQg2,
                       ARange(o.vv.i1.Pg, o.vv.iN.Pg) \o ARange(o.vv.i1.Qg, o.vv.iN.Qg),
                       nxyz)
        on == GenCostOn(cp.N)
        d2f1 == IF on THEN MatAdd(d2f0, GenCostHessian(cp, GenCostTerms(cp, x), nxyz))
                ELSE d2f0
        d2f == MatScale(d2f1, cost_mult)
        lamP == FirstHalf(lmbda.eqnonlin)
        lamQ == SecondHalf(lmbda.eqnonlin)
        muF == FirstHalf(lmbda.ineqnonlin)
        muT == SecondHalf(lmbda.ineqnonlin)
        d2G == Pad(MatAdd(KernelBlock(lamP, nb), KernelBlock(lamQ, nb)), nxtra)
        d2H == Pad(MatAdd(KernelBlock(muF, nb), KernelBlock(muT, nb)), nxtra)
    IN IF ~o.names_bound THEN Raise("NameError")
       ELSE IF KernelFails(lamP, nb) \/ KernelFails(lamQ, nb) THEN Raise("ValueError")
       ELSE IF KernelFails(muF, nl2) \/ KernelFails(muT, nl2) THEN Raise("ValueError")
       ELSE [err |-> "none", d2f |-> d2f, lamP |-> lamP, lamQ |-> lamQ, muF |-> muF,
             muT |-> muT, kernel |-> FlowKernel(lim), d2G |-> d2G, d2H |-> d2H,
             Lxx |-> MatAdd(d2f, MatAdd(d2G, d2H)),
             steps |-> IF on THEN {"hess_poly", "gen_d2f"} ELSE {"hess_poly"}]

\* One call of opf_hessfcn.  Pg and Qg are put back in gen (lines 108-109)
\* once the names resolve.
opf_hessfcn(t, x, lmbda, il, lim, cost_mult) ==
    /\ thr[t].pc = "idle"
    /\ LET res == HessEval(om, x, lmbda, il, lim, cost_mult)
       IN thr' = [thr EXCEPT ![t] =
                     [fn |-> "hessfcn",
                      pc |-> IF res.err = "none" THEN "returned" ELSE "raised",
                      args |-> [x |-> x, lmbda |-> lmbda, il |-> il, lim |-> lim,
                                cost_mult |-> cost_mult],
                      out |-> res, err |-> res.err]]
    /\ om' = IF om.names_bound
             THEN [om EXCEPT !.gen =
                      PutQg(PutPg(om.gen, Slice(x, om.vv.i1.Pg, om.vv.iN.Pg), om.baseMVA),
                            Slice(x, om.vv.i1.Qg, om.vv.iN.Qg), om.baseMVA)]
             ELSE om
    /\ UNCHANGED <<uvars, ovars, dvars>>

\* ---- The models and the inputs of the callbacks ----

GenCostRow(model, c2, c1) == [MODEL |-> model, c2 |-> c2, c1 |-> c1]

CostModels == {PW_LINEAR, POLYNOMIAL}

\* gencost tables: the active cost of the generator alone, or followed by
\* its reactive cost.
GencostInputs ==
    {<<GenCostRow(mp, 1, 2)>> : mp \in CostModels}
    \cup {<<GenCostRow(mp, 1, 2), GenCostRow(mq, 1, 3)>> : mp \in CostModels, mq \in CostModels}

GencostPolynomial == <<GenCostRow(POLYNOMIAL, 1, 2), GenCostRow(POLYNOMIAL, 1, 3)>>

\* The cost parameters: no N at all, a sparse N without rows, or a sparse N
\* of two rows, a quadratic one on Pg and a linear one with a dead zone on Qg.
CostParams(kind, vv, nxyz) ==
    IF kind = "none"
    THEN [N |-> None, Cw |-> << >>, H |-> << >>, dd |-> << >>, rh |-> << >>,
          kk |-> << >>, mm |-> << >>]
    ELSE IF kind = "empty"
    THEN [N |-> Some(<< >>), Cw |-> << >>, H |-> << >>, dd |-> << >>, rh |-> << >>,
          kk |-> << >>, mm |-> << >>]
    ELSE [N |-> Some(<< [j \in 1 .. nxyz |-> IF j = vv.i1.Pg + 1 THEN 1 ELSE 0],
                        [j \in 1 .. nxyz |-> IF j = vv.i1.Qg + 1 THEN 1 ELSE 0] >>),
          Cw |-> <<1, 1>>, H |-> << <<2, 0>>, <<0, 2>> >>, dd |-> <<2, 1>>,
          rh |-> <<1, 0>>, kk |-> <<0, 1>>, mm |-> <<1, 1>>]

CostParamKinds == {"none", "empty", "rows"}
Layouts == {"standard", "yfirst", "noy"}
BaseMVAs == {1, 2}

\* The model object om of one case.
Om(baseMVA, layout, gencost, kind) ==
    LET nb == Len(Buses)
        ng == Len(Gens)
        ny == IF layout = "noy" THEN 0 ELSE 1
        vv == IF layout = "yfirst" THEN VvYFirst(nb, ng, ny) ELSE VvStandard(nb, ng, ny)
    IN [baseMVA |-> baseMVA, bus |-> Buses, gen |-> Gens, branch |-> Branches,
        gencost |-> gencost, cp |-> CostParams(kind, vv, 2 * nb + 2 * ng + ny),
        vv |-> vv, ny |-> ny, names_bound |-> TRUE]

CaseModel == Om(1, "standard", GencostPolynomial, "none")

\* The models the callbacks are run on: the case above with its base power
\* and layout varied, with every gencost table, and with every kind of cost
\* parameters, in a namespace that resolves np, IDX and c_sparse; and the
\* case above in the namespace of the module as it stands.
Models ==
    {[CaseModel EXCEPT !.names_bound = FALSE]}
    \cup {Om(2, "standard", gc, "none") : gc \in GencostInputs}
    \cup {Om(1, lay, GencostPolynomial, k) : lay \in {"standard", "yfirst"},
                                             k \in CostParamKinds}

IlInputs == {IlNone, << >>, <<1>>, <<1, 0>>}
LimInputs == {0, 1, 2, 3}

\* The multiplier vectors handed to opf_hessfcn: of the right lengths, or one
\* entry short or long.
LenOffsets == {<<0, 0>>, <<-1, 0>>, <<1, 0>>, <<0, -1>>, <<0, 1>>}

Lmbdas(o, il) ==
    LET nb == Len(o.bus)
        nl2 == Len(DefaultIl(il, Len(o.branch)))
    IN {[eqnonlin |-> [k \in 1 .. 2 * nb + d[1] |-> k],
         ineqnonlin |-> [k \in 1 .. 2 * nl2 + d[2] |-> 10 + k]] :
            d \in {e \in LenOffsets : 2 * nl2 + e[2] >= 0}}

\* The candidates of a line search: state vectors of one voltage profile
\* that differ in Pg, Qg and y.
Candidates(o) ==
    {Assemble(o.vv, [Va |-> <<0, 0>>, Vm |-> <<1, 1>>, Pg |-> pg, Qg |-> qg, y |-> yy]) :
        pg \in PgInputs, qg \in QgInputs, yy \in YInputs(o.ny)}

(***************************************************************************)
(* Part IV.  The result handoff: DCOPFBase.unpack of ams/routines/dcopf.py *)
(* copies the solver's values into the routine and the system, and         *)
(* Dynamic.send of ams/interop/andes.py sends them to an ANDES system.     *)
(***************************************************************************)
MaxValue == 1        \* solver values are 0 .. MaxValue

\* A value attribute: None, or a number.
NoValue == [none |-> TRUE, val |-> 0]
Value(v) == [none |-> FALSE, val |-> v]
SolverValues == {Value(v) : v \in 0 .. MaxValue}

\* A variable object held in self.vars of the routine.  has_owner_name tells
\* whether the object has the attributes owner_name and src at all: an
\* instance of Var of omodel.py has name, lb, ub, info, type and v only.
RVar(name, has_owner_name, owner_name, src) ==
    [name |-> name, v |-> NoValue, has_owner_name |-> has_owner_name,
     owner_name |-> owner_name, src |-> src]

\* The models of the AMS system a variable may name as its owner: StaticGen
\* offers get_idx(), GCost offers idx.v only.  "None" is no owner.
OwnerModels ==
    [StaticGen |-> [has_get_idx |-> TRUE, v |-> NoValue],
     GCost |-> [has_get_idx |-> FALSE, v |-> NoValue]]

OwnerNames == {"None", "StaticGen", "GCost", "Nowhere"}

\* The lists of variable objects the routines of the model hold.
VarLists ==
    {<<RVar("pg", FALSE, "None", "p")>>}
    \cup {<<RVar("pg", TRUE, o, "p")>> : o \in OwnerNames}
    \cup {<<RVar("pg", TRUE, o, "p"), RVar("aux", TRUE, "None", "a")>> :
             o \in {"StaticGen", "GCost"}}

\* map2 of a routine: routine variable -> (ANDES model, ANDES parameter).
Map2s == {<< >>, <<[vname |-> "pg", mname |-> "StaticGen", pname |-> "p0"]>>}

\* The ANDES systems; 0 stands for None.
AdsIds == {1, 2}

RoutineName == "DCOPF"

NoCallFrame == [fn |-> "none", pc |-> "idle", k |-> 0, adsys |-> 0, ret |-> "none",
                err |-> "none", sync |-> "none"]

\* The routine is solved: the solver variables and the objective of self.om
\* get values and the routine its exit code.
solve(vals, objv, exit_code) ==
    /\ call.pc \in {"idle", "returned", "raised"}
    /\ solver.obj.none
    /\ solver' = [vals |-> vals, obj |-> objv]
    /\ rtn' = [rtn EXCEPT !.exit_code = exit_code]
    /\ call' = NoCallFrame
    /\ UNCHANGED <<sys, ads>>
    /\ UNCHANGED <<uvars, ovars, pvars>>

\* ---- DCOPFBase.unpack (dcopf.py 131-153) --------------------------------
unpack_begin ==
    /\ call.pc \in {"idle", "returned", "raised"}
    /\ call' = [NoCallFrame EXCEPT !.fn = "unpack", !.pc = "loop", !.k = 1]
    /\ UNCHANGED <<solver, rtn, sys, ads>>
    /\ UNCHANGED <<uvars, ovars, pvars>>

\* Lines 140-150, what the loop does for the owner of var after var.v was
\* set: "raise" (AttributeError), "continue" or "set" (owner.set is called).
UnpackOwner(var) ==
    IF ~var.has_owner_name THEN "raise"                    \* var.owner_name
    ELSE IF var.owner_name = "None" THEN "continue"
    ELSE IF var.owner_name \notin DOMAIN sys.owners THEN "raise"   \* getattr(self.system, ..)
    ELSE IF sys.owners[var.owner_name].has_get_idx
    THEN "continue"          \* try: idx = owner.get_idx() ... else: continue
    ELSE "set"               \* except AttributeError: idx = owner.idx.v

\* One iteration of "for raname, var in self.vars.items()".
unpack_var ==
    /\ call.fn = "unpack"
    /\ call.pc = "loop"
    /\ call.k <= Len(rtn.vars)
    /\ LET var == rtn.vars[call.k]
           value == solver.vals[var.name]
           step == UnpackOwner(var)
       IN /\ rtn' = [rtn EXCEPT !.vars[call.k].v = value]
          /\ sys' = IF step = "set"
                    THEN [sys EXCEPT !.owners[var.owner_name].v = value]
                    ELSE sys
          /\ call' = IF step = "raise"
                     THEN [call EXCEPT !.pc = "raised", !.err = "AttributeError"]
                     ELSE [call EXCEPT !.k = call.k + 1]
    /\ UNCHANGED <<solver, ads>>
    /\ UNCHANGED <<uvars, ovars, pvars>>

\* Lines 151-153, after the loop.
unpack_end ==
    /\ call.fn = "unpack"
    /\ call.pc = "loop"
    /\ call.k > Len(rtn.vars)
    /\ rtn' = [rtn EXCEPT !.obj_v = solver.obj]
    /\ sys' = [sys EXCEPT !.recent = RoutineName]
    /\ call' = [call EXCEPT !.pc = "returned", !.ret = "True"]
    /\ UNCHANGED <<solver, ads>>
    /\ UNCHANGED <<uvars, ovars, pvars>>

\* ---- Dynamic (andes.py 355-375, 485-613) --------------------------------
\* link_andes(adsys): self.adsys = adsys; self.link = make_link_table(adsys)
link_andes(adsys) ==
    /\ call.pc \in {"idle", "returned", "raised"}
    /\ sys' = [sys EXCEPT !.dyn = [adsys |-> adsys, link |-> TRUE]]
    /\ call' = NoCallFrame
    /\ UNCHANGED <<solver, rtn, ads>>
    /\ UNCHANGED <<uvars, ovars, pvars>>

\* _sync_check(amsys, adsys): what it returns (False or None), the systems
\* as it leaves them, and the exception it raises (adsys None has no
\* attribute is_setup).
sync_check(amsys, adsystems, adsys) ==
    IF amsys.dyn.adsys # 0 /\ amsys.dyn.adsys # adsys
    THEN [ret |-> "False", sys |-> amsys, ads |-> adsystems, err |-> "none"]
    ELSE IF adsys = 0
    THEN [ret |-> "None", sys |-> [amsys EXCEPT !.is_setup = TRUE], ads |-> adsystems,
          err |-> "AttributeError"]
    ELSE [ret |-> "None", sys |-> [amsys EXCEPT !.is_setup = TRUE, !.dyn.link = TRUE],
          ads |-> [adsystems EXCEPT ![adsys].is_setup = TRUE], err |-> "none"]

\* The value attribute v of the routine variable vname.
VarValue(vname) ==
    LET ks == {k \in 1 .. Len(rtn.vars) : rtn.vars[k].name = vname}
    IN rtn.vars[CHOOSE k \in ks : TRUE].v

\* Lines 543-612, one item of map2 sent to the ANDES system sa; linked is
\* self.adsys, whose TDS tells whether a simulation is running.
SendItem(item, adsystems, sa, linked) ==
    LET stg == item.mname \in {"StaticGen", "PV", "Sclak"}
        asks_tds == (stg /\ item.pname \in {"u", "p0"})
                    \/ (item.mname = "Bus" /\ item.pname = "v0")
        write(pname) ==
            [ads |-> [adsystems EXCEPT ![sa].par[pname] = VarValue(item.vname)],
             err |-> "none"]
    IN IF adsystems[sa].n = 0 THEN [ads |-> adsystems, err |-> "none"]
       ELSE IF asks_tds /\ linked = 0
       THEN [ads |-> adsystems, err |-> "AttributeError"]    \* self.adsys.TDS
       ELSE IF asks_tds /\ adsystems[linked].tds
       THEN IF stg /\ item.pname = "p0" THEN write("pref0")
            ELSE [ads |-> adsystems, err |-> "none"]
       ELSE write(item.pname)

\* "for vname_ams, (mname_ads, pname_ads) in map2.items()", from item k on.
RECURSIVE SendItems(_, _, _, _)
SendItems(k, adsystems, sa, linked) ==
    IF k > Len(rtn.map2) THEN [ads |-> adsystems, err |-> "none"]
    ELSE LET one == SendItem(rtn.map2[k], adsystems, sa, linked)
         IN IF one.err # "none" THEN one
            ELSE SendItems(k + 1, one.ads, sa, linked)

\* send(adsys, routine); adsys 0 and routine name "None" are the defaults.
send(adsys, routine_name) ==
    /\ call.pc \in {"idle", "returned", "raised"}
    /\ LET sa == IF adsys # 0 THEN adsys ELSE sys.dyn.adsys
           chk == sync_check(sys, ads, sa)
           name == IF routine_name = "None" THEN sys.recent ELSE routine_name
           res == IF chk.err # "none"
                  THEN [ads |-> chk.ads, ret |-> "none", err |-> chk.err]
                  ELSE IF name = "None"
                  THEN [ads |-> chk.ads, ret |-> "False", err |-> "none"]
                  ELSE IF rtn.exit_code # 0
                  THEN IF sys.recent = "None"            \* sp.recent.class_name
                       THEN [ads |-> chk.ads, ret |-> "none", err |-> "AttributeError"]
                       ELSE [ads |-> chk.ads, ret |-> "False", err |-> "none"]
                  ELSE IF Len(rtn.map2) = 0
                  THEN [ads |-> chk.ads, ret |-> "True", err |-> "none"]
                  ELSE LET s == SendItems(1, chk.ads, sa, sys.dyn.adsys)
                       IN [ads |-> s.ads,
                           ret |-> IF s.err = "none" THEN "True" ELSE "none",
                           err |-> s.err]
       IN /\ sys' = chk.sys
          /\ ads' = res.ads
          /\ call' = [fn |-> "send", pc |-> IF res.err = "none" THEN "returned" ELSE "raised",
                      k |-> 0, adsys |-> sa, ret |-> res.ret, err |-> res.err,
                      sync |-> chk.ret]
    /\ UNCHANGED <<solver, rtn>>
    /\ UNCHANGED <<uvars, ovars, pvars>>

\* The names of the solver variables a list of variable objects needs.
SolverVals(rvars) ==
    {f \in [{"pg", "aux"} -> SolverValues \cup {NoValue}] :
        \A nm \in {"pg", "aux"} :
            (f[nm] = NoValue) <=> (\A k \in 1 .. Len(rvars) : rvars[k].name # nm)}

(***************************************************************************)
(* Specifications.                                                         *)
(***************************************************************************)
InitUserfcn ==
    /\ has_userfcn = FALSE
    /\ keys = {}
    /\ userfcn = [s \in StageInputs |-> << >>]
    /\ run = RunIdle
    /\ multi = FALSE
    /\ uerr = "none"
    /\ reg = NoReg

\* OModel.__init__(routine) (omodel.py 146-154)
InitOModel(r) ==
    /\ routine = r
    /\ mdl = NoMdl
    /\ vars = << >>
    /\ constrs = << >>
    /\ obj = NoObj
    /\ n = 0
    /\ m = 0
    /\ pc = "idle"
    /\ pos = 1
    /\ nid = 1
    /\ err = NoErr
    /\ last = NoCall
    /\ trace = << >>
    /\ nsetup = 0
    /\ ncompiled = 0
    /\ ncalls = 0
    /\ first = NotCompiled

NextUserfcn ==
    \/ \E stage \in StageInputs, fcn \in Fcns, args \in ArgsInputs,
          allow_multiple \in BOOLEAN :
          add_userfcn(stage, fcn, args, allow_multiple)
    \/ \E stage \in StageInputs, fcn \in Fcns : remove_userfcn(stage, fcn)
    \/ \E stage \in StageInputs, payload \in Payloads, ppopt \in {0, 1} :
          run_begin(stage, payload, ppopt)
    \/ run_step
    \/ run_return

NextOModel ==
    \/ setup_begin
    \/ setup_var
    \/ setup_vars_end
    \/ setup_constr
    \/ setup_constrs_end
    \/ setup_obj
    \/ setup_mdl
    \/ \E k \in 1 .. Len(routine.ralgebs) : call_parse_var(routine.ralgebs[k])
    \/ \E k \in 1 .. Len(routine.constrs) : call_parse_constr(routine.constrs[k])
    \/ call_parse_obj

\* The model object as built, no callback running.
InitOpf(o) ==
    /\ om = o
    /\ thr = [t \in Threads |-> IdleFrame]

\* One caller evaluating opf_consfcn, one call after the other.
NextConsfcn ==
    \/ /\ thr[1].pc = "idle"
       /\ \E x \in Xs(om), il \in IlInputs, lim \in LimInputs : cons_call(1, x, il, lim)
    \/ cons_put_qg(1)
    \/ cons_eval(1)
    \/ opf_return(1)

\* One caller evaluating opf_costfcn and opf_hessfcn, one call after the other.
NextOpf ==
    \/ /\ thr[1].pc = "idle"
       /\ \E x \in Candidates(om), return_hessian \in BOOLEAN :
             opf_costfcn(1, x, return_hessian)
    \/ /\ thr[1].pc = "idle"
       /\ \E x \in Candidates(om), il \in {IlNone, <<1>>}, lim \in {0, 1, 2},
             cost_mult \in {1, 2} :
             \E lmbda \in Lmbdas(om, il) : opf_hessfcn(1, x, lmbda, il, lim, cost_mult)
    \/ opf_return(1)

\* Two callers evaluating opf_consfcn on the same model object, their
\* statements interleaved.
NextOpfConcurrent ==
    \E t \in Threads :
        \/ /\ thr[t].pc = "idle"
           /\ \E x \in Candidates(om) : cons_call(t, x, IlNone, 0)
        \/ cons_put_qg(t)
        \/ cons_eval(t)
        \/ opf_return(t)

\* The routine with its variable objects, not solved yet; the AMS system not
\* linked; two ANDES systems, the second one possibly in a simulation.
InitHandoff(rvars, map2, tds) ==
    /\ solver = [vals |-> [nm \in {"pg", "aux"} |-> NoValue], obj |-> NoValue]
    /\ rtn = [vars |-> rvars, obj_v |-> NoValue, exit_code |-> 0, map2 |-> map2]
    /\ sys = [recent |-> "None", is_setup |-> FALSE, owners |-> OwnerModels,
              dyn |-> [adsys |-> 0, link |-> FALSE]]
    /\ ads = [a \in AdsIds |->
                 [is_setup |-> FALSE, tds |-> (tds /\ a = 2), n |-> 1,
                  par |-> [p0 |-> NoValue, pref0 |-> NoValue]]]
    /\ call = NoCallFrame

\* The routine and systems of the other specifications.
InitHandoffIdle == InitHandoff(<<RVar("pg", TRUE, "StaticGen", "p")>>, << >>, FALSE)

\* A routine is solved and unpacked, and its results are sent to ANDES.
NextHandoff ==
    \/ \E vals \in SolverVals(rtn.vars), objv \in SolverValues, exit_code \in {0, 1} :
          solve(vals, objv, exit_code)
    \/ unpack_begin
    \/ unpack_var
    \/ unpack_end
    \/ \E adsys \in AdsIds : link_andes(adsys)
    \/ \E adsys \in AdsIds \cup {0}, routine_name \in {"None", RoutineName} :
          send(adsys, routine_name)

\* Callbacks are registered and removed; none is run.
NextRegistry ==
    \/ \E stage \in StageInputs, fcn \in Fcns, args \in ArgsInputs,
          allow_multiple \in BOOLEAN :
          add_userfcn(stage, fcn, args, allow_multiple)
    \/ \E stage \in StageInputs, fcn \in Fcns : remove_userfcn(stage, fcn)

InitRegistry ==
    InitUserfcn /\ InitOModel(DCOPFRoutine) /\ InitOpf(CaseModel) /\ InitHandoffIdle

InitCompiler ==
    \E r \in Routines :
        InitUserfcn /\ InitOModel(r) /\ InitOpf(CaseModel) /\ InitHandoffIdle

InitCallbacks ==
    \E o \in Models :
        InitUserfcn /\ InitOModel(DCOPFRoutine) /\ InitOpf(o) /\ InitHandoffIdle

InitNetwork ==
    \E b \in BaseMVAs, lay \in Layouts :
        InitUserfcn /\ InitOModel(DCOPFRoutine)
        /\ InitOpf(Om(b, lay, GencostPolynomial, "none")) /\ InitHandoffIdle

InitLineSearch ==
    \E b \in BaseMVAs :
        InitUserfcn /\ InitOModel(DCOPFRoutine)
        /\ InitOpf(Om(b, "standard", GencostPolynomial, "none")) /\ InitHandoffIdle

InitDispatch ==
    \E rvars \in VarLists, map2 \in Map2s, tds \in BOOLEAN :
        InitUserfcn /\ InitOModel(DCOPFRoutine) /\ InitOpf(CaseModel)
        /\ InitHandoff(rvars, map2, tds)

\* The registry of one case dict.
SpecUserfcn == InitRegistry /\ [][NextUserfcn]_allvars

\* The registry of one case dict under add_userfcn and remove_userfcn alone.
SpecRegistry == InitRegistry /\ [][NextRegistry]_allvars

\* One OModel instance over any of the formulations.
SpecOModel == InitCompiler /\ [][NextOModel]_allvars

\* opf_consfcn called by one caller.
SpecConsfcn == InitNetwork /\ [][NextConsfcn]_allvars

\* opf_costfcn and opf_hessfcn called by one caller.
SpecOpf == InitCallbacks /\ [][NextOpf]_allvars

\* opf_consfcn evaluated by two callers at once.
SpecOpfConcurrent == InitLineSearch /\ [][NextOpfConcurrent]_allvars

\* One routine solved, then unpacked and sent to ANDES any number of times.
SpecHandoff == InitDispatch /\ [][NextHandoff]_allvars

(***************************************************************************)
(* Properties of the registry.                                             *)
(***************************************************************************)
NoDuplicate(list) ==
    \A i, j \in 1 .. Len(list) : list[i].fcn = list[j].fcn => i = j

FcnsOf(list) == [k \in 1 .. Len(list) |-> list[k].fcn]

\* The payload after the callbacks of list were applied first to last.
RECURSIVE Chain(_, _, _, _)
Chain(stage, list, payload, ppopt) ==
    IF list = << >> THEN payload
    ELSE LET len == Len(list)
             before == Chain(stage, SubSeq(list, 1, len - 1), payload, ppopt)
             args == IF list[len].hasargs THEN list[len].args ELSE << >>
         IN IF stage \in StagesRvFdOptArgs
            THEN Callback4(list[len].fcn, before, 0, ppopt, args)
            ELSE Callback(list[len].fcn, before, args)

IsPrefix(a, b) == Len(a) <= Len(b) /\ a = SubSeq(b, 1, Len(a))

\* What one complete setup does, in order.
ExpectedTrace(r) ==
    [k \in 1 .. Len(r.ralgebs) |-> [ev |-> "var", name |-> r.ralgebs[k].name]]
    \o [k \in 1 .. Len(r.constrs) |-> [ev |-> "constr", name |-> r.constrs[k].name]]
    \o <<[ev |-> "obj", name |-> "obj"], [ev |-> "mdl", name |-> "mdl"]>>

\* C3: one setup parses every routine variable, then every declared
\* constraint, then the objective, and assigns mdl last; nothing is skipped
\* or done twice.
C3_SetupPhasesInOrder ==
    /\ IsPrefix(trace, ExpectedTrace(routine))
    /\ pc = "done" => trace = ExpectedTrace(routine)

C3_Witness ==
    /\ pc = "done"
    /\ Len(routine.ralgebs) = 2
    /\ Len(routine.constrs) = 2
    /\ mdl.built

\* The decision variable a bound constraint is about.
IsBoundOf(c, name, rel, param) ==
    /\ c.rel = rel
    /\ c.rhs = param
    /\ c.lhs = <<[t |-> HandleOf(name), id |-> Get(vars, name).id]>>

\* C4: after setup, constrs holds "variable >= lb" ("variable <= ub") for
\* every routine variable that declares a lower (upper) bound parameter.
C4_EveryBoundConstraintPresent ==
    (pc = "done" /\ ncalls = 0) =>
        \A k \in 1 .. Len(routine.ralgebs) :
            LET ra == routine.ralgebs[k]
            IN /\ ra.lb # "None" =>
                    \E j \in 1 .. Len(constrs) :
                        IsBoundOf(constrs[j].v, ra.name, ">=", ra.lb)
               /\ ra.ub # "None" =>
                    \E j \in 1 .. Len(constrs) :
                        IsBoundOf(constrs[j].v, ra.name, "<=", ra.ub)

\* The step taken is a call of parse_constr (inside setup or by a client).
ParseConstrStep ==
    /\ last'.op = "parse_constr"
    /\ \/ ncalls' = ncalls + 1
       \/ pc = "constrs" /\ pos <= Len(routine.constrs)

\* C5: parse_constr stores "expr == 0" under the constraint's name for type
\* 'eq' and "expr <= 0" for type 'uq' (the names of the expression being
\* bound); for any other type it raises and leaves constrs unchanged.
C5_ParseConstrRelation ==
    [][ParseConstrStep =>
        \A k \in 1 .. Len(routine.constrs) :
            LET c == routine.constrs[k]
            IN c.name = last'.name =>
               IF c.type \in {"eq", "uq"}
               THEN Resolvable(Sub(c.e_str), vars) =>
                        /\ ~err'.raised
                        /\ Get(constrs', c.name).rel = (IF c.type = "eq" THEN "==" ELSE "<=")
                        /\ Get(constrs', c.name).lhs = Resolve(Sub(c.e_str), vars)
                        /\ Get(constrs', c.name).rhs = "0"
               ELSE /\ err'.raised
                    /\ constrs' = constrs]_allvars

\* parse_constr has raised for an unknown type after an equality was stored.
C5_Witness ==
    /\ err.raised
    /\ err.by = "parse_constr"
    /\ err.type = "ValueError"
    /\ \E j \in 1 .. Len(constrs) : constrs[j].v.rel = "=="

ParseObjStep ==
    /\ last'.op = "parse_obj"
    /\ \/ ncalls' = ncalls + 1
       \/ pc = "obj"

\* C6: parse_obj wraps the objective in Minimize for sense 'min' and in
\* Maximize for sense 'max' (the names of the expression being bound); for
\* any other sense it raises and leaves obj unchanged.
C6_ParseObjSense ==
    [][ParseObjStep =>
        LET o == routine.obj
        IN IF o.sense \in {"min", "max"}
           THEN Resolvable(Sub(o.e_str), vars) =>
                    /\ ~err'.raised
                    /\ obj'.sense = (IF o.sense = "min" THEN "Minimize" ELSE "Maximize")
                    /\ obj'.expr = Resolve(Sub(o.e_str), vars)
           ELSE /\ err'.raised
                /\ obj' = obj]_allvars

\* setup has ended because parse_obj raised for an unknown sense.
C6_Witness ==
    /\ err.raised
    /\ err.by = "parse_obj"
    /\ err.type = "ValueError"
    /\ pc = "failed"

Mentions(msg, token) == \E k \in 1 .. Len(msg) : msg[k] = token

\* C7: the ValueError of parse_constr names the offending constraint or its
\* type token, and the ValueError of parse_obj names the offending sense.
C7_ErrorNamesOffender ==
    (err.raised /\ err.type = "ValueError") =>
        IF err.by = "parse_constr"
        THEN \A k \in 1 .. Len(routine.constrs) :
                routine.constrs[k].name = last.name =>
                    \/ Mentions(err.msg, routine.constrs[k].name)
                    \/ Mentions(err.msg, routine.constrs[k].type)
        ELSE Mentions(err.msg, routine.obj.sense)

\* setup has ended with the ValueError of an unknown type or sense.
SetupRejected == pc = "failed" /\ err.raised /\ err.type = "ValueError"

\* C8 as stated: when setup raises for an unknown type or sense, nothing has
\* been built yet.
C8_NothingBuiltAtError ==
    SetupRejected =>
        /\ vars = << >>
        /\ constrs = << >>
        /\ n = 0
        /\ m = 0
        /\ mdl = NoMdl

RECURSIVE SumN(_)
SumN(ralgebs) ==
    IF ralgebs = << >> THEN 0 ELSE Head(ralgebs).n + SumN(Tail(ralgebs))

\* C8 amended: when setup raises for an unknown type or sense on an instance
\* that was never compiled, the problem handle has not been built (mdl is
\* None); the variables have all been parsed by then: vars holds every routine
\* variable, n counts them once per setup call, and constrs holds a constraint
\* under every declared bound parameter and under every constraint declared
\* before the offending one.
C8_ProblemNotBuiltAtError ==
    (SetupRejected /\ ncompiled = 0) =>
        /\ mdl = NoMdl
        /\ \A k \in 1 .. Len(routine.ralgebs) :
              /\ routine.ralgebs[k].name \in Keys(vars)
              /\ routine.ralgebs[k].lb # "None" => routine.ralgebs[k].lb \in Keys(constrs)
              /\ routine.ralgebs[k].ub # "None" => routine.ralgebs[k].ub \in Keys(constrs)
        /\ n = nsetup * SumN(routine.ralgebs)
        /\ err.by = "parse_constr" =>
              \A k \in 1 .. (pos - 1) : routine.constrs[k].name \in Keys(constrs)

\* setup was rejected at the objective, after two variables and two
\* constraints were parsed.
C8_Witness ==
    /\ SetupRejected
    /\ ncompiled = 0
    /\ err.by = "parse_obj"
    /\ Len(vars) = 2
    /\ Len(routine.constrs) = 2

C10_RecompileIdempotent ==
    (pc = "done" /\ ncompiled = 2 /\ ncalls = 0) =>
        Compiled(vars, constrs, obj, n, m) = first

(***************************************************************************)
(* Properties of the OPF callbacks.                                        *)
(***************************************************************************)
ConsReturned(t) == thr[t].fn = "consfcn" /\ thr[t].pc = "returned"

\* The lines the call of caller t limits.
LinesOf(t) == DefaultIl(thr[t].args.il, Len(om.branch))

Positive(e) == e.inf = 1 \/ (e.inf = 0 /\ e.v > 0)

Abs2(c) == c[1] * c[1] + c[2] * c[2]

\* C11: opf_consfcn, opf_costfcn and opf_hessfcn leave the case arrays of
\* om.get_ppc() (bus, gen, branch, gencost) as they were: no step of a call
\* changes any of them.
C11_InputsReadOnly ==
    [][/\ om'.bus = om.bus
       /\ om'.gen = om.gen
       /\ om'.branch = om.branch
       /\ om'.gencost = om.gencost]_allvars

\* g as opf_consfcn returns it for x on the model o when no other call runs.
AloneG(o, x, lim, il) ==
    LET own == [o EXCEPT !.gen =
                   PutQg(PutPg(o.gen, Slice(x, o.vv.i1.Pg, o.vv.iN.Pg), o.baseMVA),
                         Slice(x, o.vv.i1.Qg, o.vv.iN.Qg), o.baseMVA)]
    IN ConsEval(own, x, lim, il).g

\* C12: of two opf_consfcn calls interleaved on one model object, each
\* returns the g it returns when it runs alone.
C12_ConcurrentSameG ==
    \A t \in Threads :
        ConsReturned(t) =>
            thr[t].out.g = AloneG(om, thr[t].args.x, thr[t].args.lim, thr[t].args.il)

\* C13: with no limited line h is empty and dh is None (no matrix: no rows,
\* no entries); g always holds the nb active mismatches followed by the nb
\* reactive ones, and dg is always a matrix.
C13_EmptyLimitsFullBalance ==
    \A t \in Threads :
        ConsReturned(t) =>
            LET nb == Len(om.bus)
                out == thr[t].out
                V == Voltage(thr[t].args.x, om.vv)
                mis == Mismatch(V, YbusOf(om.branch, nb),
                                makeSbus(om.baseMVA, om.bus, om.gen))
            IN /\ Len(LinesOf(t)) = 0 => (out.h = << >> /\ out.dh = None)
               /\ Len(out.g) = 2 * nb
               /\ \A i \in 1 .. nb : out.g[i] = mis[i][1] /\ out.g[nb + i] = mis[i][2]
               /\ Len(out.dg) = Len(thr[t].args.x)
               /\ \A i \in 1 .. Len(out.dg) : Len(out.dg[i]) = 2 * nb

C13_Witness ==
    \E t \in Threads :
        /\ ConsReturned(t)
        /\ thr[t].args.il = << >>
        /\ thr[t].out.dh = None
        /\ \E i \in 1 .. Len(om.bus) : thr[t].out.g[Len(om.bus) + i] # 0

ExpectedMetric(lim, V, from, to) ==
    LET I == CMul(LineY, CSub(V[from], V[to]))
        S == CMul(V[from], CConj(I))
    IN IF lim = 2 THEN Abs2(I) ELSE IF lim = 1 THEN S[1] * S[1] ELSE Abs2(S)

\* (RATE_A / baseMVA)^2; with zero_unlimited a zero RATE_A stands for no limit.
Limit2(br, zero_unlimited) ==
    IF zero_unlimited /\ br.RATE_A = 0 THEN Inf
    ELSE Fin((br.RATE_A \div om.baseMVA) * (br.RATE_A \div om.baseMVA))

\* The entries of h of the call of caller t are, from ends first and to ends
\* after them, the squared metric minus the squared limit of the line.
HIsMetricMinus(t, zero_unlimited) ==
    LET il == LinesOf(t)
        V == Voltage(thr[t].args.x, om.vv)
        lim == thr[t].args.lim
    IN /\ Len(thr[t].out.h) = 2 * Len(il)
       /\ \A k \in 1 .. Len(il) :
             LET br == om.branch[il[k] + 1]
             IN /\ thr[t].out.h[k] =
                      Minus(ExpectedMetric(lim, V, br.F_BUS + 1, br.T_BUS + 1),
                            Limit2(br, zero_unlimited))
                /\ thr[t].out.h[Len(il) + k] =
                      Minus(ExpectedMetric(lim, V, br.T_BUS + 1, br.F_BUS + 1),
                            Limit2(br, zero_unlimited))

InBlock(i, name) == om.vv.i1[name] < i /\ i <= om.vv.iN[name]

RowIsZero(row) == \A j \in 1 .. Len(row) : row[j] = 0

\* C16: dg and dh have len(x) rows; dg is nonzero only in rows of the Va,
\* Vm, Pg and Qg blocks, dh only in rows of the Va and Vm blocks.
C16_JacobianRows ==
    \A t \in Threads :
        ConsReturned(t) =>
            LET dg == thr[t].out.dg
                dh == thr[t].out.dh
            IN /\ Len(dg) = Len(thr[t].args.x)
               /\ \A i \in 1 .. Len(dg) :
                     ~RowIsZero(dg[i]) => \E b \in {"Va", "Vm", "Pg", "Qg"} : InBlock(i, b)
               /\ ~dh.none =>
                     /\ Len(dh.val) = Len(thr[t].args.x)
                     /\ \A i \in 1 .. Len(dh.val) :
                           ~RowIsZero(dh.val[i]) => \E b \in {"Va", "Vm"} : InBlock(i, b)

\* A call on a model whose y block comes first, with limited lines: the row
\* of y is zero in both Jacobians and the row of Pg is not zero in dg.
C16_Witness ==
    \E t \in Threads :
        /\ ConsReturned(t)
        /\ om.ny > 0
        /\ om.vv.i1.y = 0
        /\ ~thr[t].out.dh.none
        /\ RowIsZero(thr[t].out.dg[1])
        /\ RowIsZero(thr[t].out.dh.val[1])
        /\ ~RowIsZero(thr[t].out.dg[om.vv.i1.Pg + 1])

CostCalled(t) == thr[t].fn = "costfcn" /\ thr[t].pc \in {"returned", "raised"}
HessCalled(t) == thr[t].fn = "hessfcn" /\ thr[t].pc \in {"returned", "raised"}

HessianSteps == {"hess_poly", "gen_d2f"}
GenCostSteps == {"gen_f", "gen_df", "gen_d2f"}

\* C17: without the Hessian request opf_costfcn returns the pair (f, df) and
\* runs no Hessian step; with it, it returns (f, df, d2f) with the same f
\* and df.
C17_HessianOnRequestOnly ==
    \A t \in Threads :
        CostCalled(t) =>
            LET plain == CostEval(om, thr[t].args.x, FALSE)
            IN /\ thr[t].pc = "returned"
               /\ thr[t].out.f = plain.f
               /\ thr[t].out.df = plain.df
               /\ IF thr[t].args.return_hessian
                  THEN thr[t].out.ret = <<"f", "df", "d2f">>
                  ELSE /\ thr[t].out.ret = <<"f", "df">>
                       /\ thr[t].out.steps \cap HessianSteps = {}

\* C18: on a model whose N has no nonzero entry opf_costfcn and opf_hessfcn
\* complete, with and without the Hessian request, the generalized term adds
\* nothing and none of its steps is run.
C18_NoGeneralizedCost ==
    \A t \in Threads :
        ((CostCalled(t) \/ HessCalled(t)) /\ ~om.cp.N.none /\ Nnz(om.cp.N) = 0) =>
            /\ thr[t].pc = "returned"
            /\ thr[t].out.steps \cap GenCostSteps = {}
            /\ thr[t].fn = "costfcn" => thr[t].out.fgen = 0

\* The polynomial cost summed over exactly the polynomial rows of gencost.
PolynomialRowsCost(gencost, xx) ==
    SumSeq([k \in 1 .. Len(gencost) |->
        IF gencost[k].MODEL = POLYNOMIAL THEN totcost(gencost[k], xx[k]) ELSE 0])

\* C19: the polynomial part of f is the polynomial cost summed over exactly
\* the gencost rows whose MODEL is POLYNOMIAL, wherever they stand.
C19_PolynomialRowsCounted ==
    \A t \in Threads :
        (CostCalled(t) /\ thr[t].pc = "returned") =>
            thr[t].out.fpoly =
                PolynomialRowsCost(om.gencost, OutputsMW(thr[t].args.x, om.vv, om.baseMVA))

\* C20: opf_hessfcn given an eqnonlin vector of other than 2*nb entries or an
\* ineqnonlin vector of other than 2*len(il) entries fails with a dimension
\* error and returns no Hessian.
C20_MultiplierLengthChecked ==
    \A t \in Threads :
        HessCalled(t) =>
            LET a == thr[t].args
                nl2 == Len(DefaultIl(a.il, Len(om.branch)))
            IN (Len(a.lmbda.eqnonlin) # 2 * Len(om.bus) \/ Len(a.lmbda.ineqnonlin) # 2 * nl2)
                  => (thr[t].pc = "raised" /\ thr[t].err = "ValueError")

HessReturned(t) == thr[t].fn = "hessfcn" /\ thr[t].pc = "returned"

\* Position i of x lies in the Va or the Vm range of the index map.
InVoltageRange(i) == InBlock(i, "Va") \/ InBlock(i, "Vm")

\* The matrix B is len(x) x len(x) and its nonzero entries are the entries
\* whose row and column both lie in the Va and Vm ranges.
OnVoltageRanges(B, nxyz) ==
    /\ Len(B) = nxyz
    /\ \A i \in 1 .. Len(B) :
          /\ Len(B[i]) = nxyz
          /\ \A j \in 1 .. Len(B[i]) :
                B[i][j] # 0 <=> (InVoltageRange(i) /\ InVoltageRange(j))

ReactiveFlow(V, from, to) ==
    CIm(CMul(V[from], CConj(CMul(LineY, CSub(V[from], V[to])))))

\* The entries of h of the active-power call of caller t against the h of the
\* apparent-power call for the same model, x and il: end by end they differ
\* exactly where the reactive flow is not zero.  With finite_only this is
\* asked of the lines whose RATE_A is not zero, the entries of the other
\* lines being equal.
ModesDifferByReactiveFlow(t, finite_only) ==
    LET il == LinesOf(t)
        x == thr[t].args.x
        V == Voltage(x, om.vv)
        real == thr[t].out.h
        apparent == ConsEval(om, x, 0, thr[t].args.il).h
    IN \A k \in 1 .. Len(il) :
          LET br == om.branch[il[k] + 1]
              qf == ReactiveFlow(V, br.F_BUS + 1, br.T_BUS + 1)
              qt == ReactiveFlow(V, br.T_BUS + 1, br.F_BUS + 1)
          IN IF finite_only /\ br.RATE_A = 0
             THEN real[k] = apparent[k] /\ real[Len(il) + k] = apparent[Len(il) + k]
             ELSE /\ real[k] # apparent[k] <=> qf # 0
                  /\ real[Len(il) + k] # apparent[Len(il) + k] <=> qt # 0

\* C22 as stated: for the same network and state the h of the apparent-power
\* mode and the h of the active-power mode differ on every end of a line of
\* il whose reactive flow is not zero and are equal on every other end.
C22_ModesDifferOnEveryLine ==
    \A t \in Threads :
        (ConsReturned(t) /\ thr[t].args.lim = 1) => ModesDifferByReactiveFlow(t, FALSE)

\* C22: for the same network and state the h of the apparent-power mode and
\* the h of the active-power mode differ on every end with nonzero reactive
\* flow of a line of il whose RATE_A is not zero; they are equal on the ends
\* without reactive flow and on both ends of a line whose RATE_A is zero.
C22_ModesDifferByReactiveFlow ==
    \A t \in Threads :
        (ConsReturned(t) /\ thr[t].args.lim = 1) => ModesDifferByReactiveFlow(t, TRUE)

\* An active-power call on both lines, with reactive power flowing: the
\* entries of the limited line differ from the apparent-power ones, those of
\* the line without limit do not.
C22_Witness ==
    \E t \in Threads :
        /\ ConsReturned(t)
        /\ thr[t].args.lim = 1
        /\ LinesOf(t) = <<0, 1>>
        /\ ReactiveFlow(Voltage(thr[t].args.x, om.vv), 1, 2) # 0
        /\ thr[t].out.h[1] = ConsEval(om, thr[t].args.x, 0, thr[t].args.il).h[1]
        /\ thr[t].out.h[2] # ConsEval(om, thr[t].args.x, 0, thr[t].args.il).h[2]

(***************************************************************************)
(* Properties of the result handoff.                                       *)
(***************************************************************************)
UnpackEnded == call.fn = "unpack" /\ call.pc \in {"returned", "raised"}

C26_UnpackCopiesToOwners ==
    (UnpackEnded /\ call.pc = "returned") =>
        \A k \in 1 .. Len(rtn.vars) :
            LET var == rtn.vars[k]
            IN (var.has_owner_name /\ var.owner_name \in DOMAIN sys.owners) =>
                   sys.owners[var.owner_name].v = var.v

\* C27: a send whose target is another ANDES system than the linked one
\* writes nothing into any ANDES system.
C27_SendQuitsOnForeignTarget ==
    [][(call'.fn = "send" /\ sys.dyn.adsys # 0 /\ call'.adsys # sys.dyn.adsys)
          => ads' = ads]_allvars

(***************************************************************************)
(* Properties of the registry: the effect of one add or remove call        *)
(***************************************************************************)
\* new is old without its entry k.
IsOldWithout(old, new, k) ==
    /\ Len(new) = Len(old) - 1
    /\ \A j \in 1 .. Len(old) :
          /\ (j < k) => (new[j] = old[j])
          /\ (j > k) => (new[j - 1] = old[j])

\* Every stage but this one has the list it had, and the dict has the keys it
\* had.
OtherStagesUntouched(stage) ==
    /\ keys' = keys
    /\ has_userfcn' = has_userfcn
    /\ \A s \in StageInputs \ {stage} : userfcn'[s] = userfcn[s]

\* What a remove_userfcn(ppc, stage, fcn) step does to the registry.
RemovesLastOnly(stage, fcn) ==
    LET old == StageList(stage)
        new == userfcn'[stage]
        hits == {k \in 1 .. Len(old) : old[k].fcn = fcn}
    IN /\ OtherStagesUntouched(stage)
       /\ IF hits = {}
          THEN new = userfcn[stage]
          ELSE \E k \in hits :
                  /\ \A j \in hits : j <= k
                  /\ IsOldWithout(old, new, k)

\* C24: remove_userfcn(ppc, stage, fcn) deletes exactly one entry, the last
\* entry of the stage whose function is fcn; the other entries of the stage
\* keep their order, the other stages are untouched, and when fcn is not
\* registered for the stage the list is left unchanged.
C24_RemoveDeletesLastMatch ==
    [][(reg'.op = "remove_userfcn" /\ remove_userfcn(reg'.stage, reg'.fcn))
          => RemovesLastOnly(reg'.stage, reg'.fcn)]_allvars

\* remove_userfcn deleted one of several entries of f: an earlier one, with
\* its args, is still in front of g.
C24_Witness ==
    /\ reg = [op |-> "remove_userfcn", stage |-> "formulation", fcn |-> "f"]
    /\ uerr = "none"
    /\ userfcn["formulation"] = <<[fcn |-> "f", hasargs |-> TRUE, args |-> <<1>>],
                                  Entry("g")>>

\* What an add_userfcn(ppc, stage, fcn, args) step does to the registry.
AppendsOneOnly(stage, fcn, args) ==
    LET old == StageList(stage)
        new == userfcn'[stage]
    IN /\ keys' = keys \cup {stage}
       /\ \A s \in StageInputs \ {stage} : userfcn'[s] = userfcn[s]
       /\ Len(new) = Len(old) + 1
       /\ \A j \in 1 .. Len(old) : new[j] = old[j]
       /\ new[Len(new)].fcn = fcn
       /\ new[Len(new)].hasargs = (Len(args) > 0)
       /\ new[Len(new)].hasargs => (new[Len(new)].args = args)

\* C30: add_userfcn(ppc, stage, fcn, args) appends exactly one entry for fcn
\* at the end of the list of the stage and changes nothing else: the entries
\* registered before keep their position, function and args, the other
\* stages are untouched, and non-empty args are attached to the new entry
\* and to no other, whatever calls of add_userfcn and remove_userfcn came
\* before.
C30_AddAppendsOneEntry ==
    [][(reg'.op = "add_userfcn") =>
          \A args \in ArgsInputs, allow_multiple \in BOOLEAN :
             add_userfcn(reg'.stage, reg'.fcn, args, allow_multiple)
                 => AppendsOneOnly(reg'.stage, reg'.fcn, args)]_allvars

\* g was added with args behind f, which has none, after the one callback of
\* savecase had been removed.
C30_Witness ==
    /\ reg = [op |-> "add_userfcn", stage |-> "formulation", fcn |-> "g"]
    /\ userfcn["formulation"] = <<Entry("f"),
                                  [fcn |-> "g", hasargs |-> TRUE, args |-> <<1>>]>>
    /\ "savecase" \in keys
    /\ userfcn["savecase"] = << >>

Residual(cp, x, i) == Dot(cp.N.val[i], x) - cp.rh[i]

\* The rows in their dead zone: kk > 0 and -kk <= r <= kk.
DeadRows(cp, x) ==
    {i \in 1 .. Len(cp.N.val) :
        /\ cp.kk[i] > 0
        /\ -cp.kk[i] <= Residual(cp, x, i)
        /\ Residual(cp, x, i) <= cp.kk[i]}

\* The cost parameters without the rows D.
DropRows(cp, D) ==
    LET keep == SelectSeq([i \in 1 .. Len(cp.N.val) |-> i], LAMBDA i : i \notin D)
        Pick(v) == [k \in 1 .. Len(keep) |-> v[keep[k]]]
    IN [N |-> Some(Pick(cp.N.val)), Cw |-> Pick(cp.Cw),
        H |-> [k \in 1 .. Len(keep) |-> Pick(cp.H[keep[k]])],
        dd |-> Pick(cp.dd), rh |-> Pick(cp.rh), kk |-> Pick(cp.kk), mm |-> Pick(cp.mm)]

\* The number of the sets iLT, iEQ, iGT row i is in.
SetsOfRow(gt, i) ==
    (IF i \in gt.iLT THEN 1 ELSE 0) + (IF i \in gt.iEQ THEN 1 ELSE 0)
    + (IF i \in gt.iGT THEN 1 ELSE 0)

\* The call of thread t returned with the generalized cost block executed,
\* all thresholds kk being >= 0.
GenCostReturned(t) ==
    /\ thr[t].pc = "returned"
    /\ thr[t].fn \in {"costfcn", "hessfcn"}
    /\ GenCostOn(om.cp.N)
    /\ \A i \in 1 .. Len(om.cp.kk) : om.cp.kk[i] >= 0

\* C28: with thresholds kk >= 0, a row of the generalized cost is weighted
\* into w (M = mm) if and only if it is outside its dead zone, and then it
\* is in exactly one of iLT (r < -kk), iEQ (kk = 0 and r = 0) and iGT
\* (r > kk); a row with kk > 0 and -kk <= r <= kk is in none of them and
\* adds nothing to the cost, the gradient and the Hessian: they are what
\* they would be without the row.
C28_DeadZoneRowsContributeNothing ==
    \A t \in Threads :
        GenCostReturned(t) =>
            LET x == thr[t].args.x
                cp == om.cp
                gt == GenCostTerms(cp, x)
                D == DeadRows(cp, x)
                without == [om EXCEPT !.cp = DropRows(cp, D)]
                bare == [om EXCEPT !.cp = CostParams("none", om.vv, Len(x))]
            IN /\ \A i \in 1 .. Len(cp.kk) :
                     IF i \in D
                     THEN SetsOfRow(gt, i) = 0 /\ gt.M[i] = 0 /\ gt.w[i] = 0
                     ELSE SetsOfRow(gt, i) = 1 /\ gt.M[i] = cp.mm[i]
               /\ (thr[t].fn = "costfcn") =>
                     /\ thr[t].out.f = CostEval(without, x, FALSE).f
                     /\ thr[t].out.df = CostEval(without, x, FALSE).df
                     /\ thr[t].args.return_hessian =>
                           thr[t].out.d2f =
                               MatAdd(CostEval(bare, x, TRUE).d2f,
                                      GenCostHessian(without.cp,
                                                     GenCostTerms(without.cp, x),
                                                     Len(x)))
               /\ (thr[t].fn = "hessfcn") =>
                     thr[t].out.d2f =
                         HessEval(without, x, thr[t].args.lmbda, thr[t].args.il,
                                  thr[t].args.lim, thr[t].args.cost_mult).d2f

\* opf_costfcn returned the Hessian for an x whose second row is on the edge
\* of its dead zone and whose first row is above its threshold.
C28_Witness ==
    /\ GenCostReturned(1)
    /\ thr[1].fn = "costfcn"
    /\ thr[1].args.return_hessian
    /\ DeadRows(om.cp, thr[1].args.x) = {2}
    /\ Residual(om.cp, thr[1].args.x, 2) = om.cp.kk[2]
    /\ 1 \in GenCostTerms(om.cp, thr[1].args.x).iGT

(***************************************************************************)
(* Properties of the OModel: the counters                                  *)
(***************************************************************************)
\* C29: after setup completes, n is the sum of the lengths of the variables
\* held in vars and m is the sum of the sizes of the constraints held in
\* constrs, bound constraints and declared ones, each counted once.
C29_CountersMatchContents ==
    (pc = "done" /\ ncalls = 0) =>
        /\ n = SumSeq([k \in 1 .. Len(vars) |-> vars[k].v.n])
        /\ m = SumSeq([k \in 1 .. Len(constrs) |-> constrs[k].v.size])

====
